---- MODULE Spec2Model ----
(***************************************************************************)
(* A model of kwt, the k11r worktree tool: the two-tier configuration      *)
(* store (ConfigManager) and the command orchestration (new, mr, pr, rm).  *)
(*                                                                         *)
(* Free-form strings (paths, names, prefixes, shell command lines) are     *)
(* sequences of one-character strings, so that the code's character-level  *)
(* operations (trim, split, concatenation) are computed, not assumed.      *)
(* Enumerated values and opaque labels are plain strings.                  *)
(* A JavaScript object is a function from its own keys to their values:    *)
(* a key the object does not have is not in the function's domain.         *)
(***************************************************************************)
EXTENDS Integers, Sequences, FiniteSets, TLC

VARIABLES
    \* ---- ConfigManager (src/tsup.config.ts 225-425) and its two files
    globalFile,     \* content of ~/.kwt: Absent, or the value the file parses to
    localFile,      \* content of <cwd>/.kwt
    globalConfig,   \* ConfigManager.globalConfig (Null or a Config)
    localConfig,    \* ConfigManager.localConfig
    mergedConfig,   \* ConfigManager.mergedConfig, the cache
    cfgCall,        \* the last ConfigManager call: its name, input, outcome and value
    cfgPrev,        \* the ConfigManager call before that one
    \* ---- one invocation of a command (src/src/commands/base.ts, src/unnamed/part_004)
    invocation,     \* how it was started: the command, its argument, the command line
    options,        \* the options object handed to execute()
    env,            \* the surroundings: the loaded configuration, git's worktree list
    pc,             \* where execute() stands
    frame,          \* execute()'s local variables
    log,            \* every external command, prompt and file deletion so far, in order
    status,         \* "running", "ok" (execute returned) or the error it threw
    \* ---- one call of a function or method that keeps no state
    fnCall          \* its name, its arguments and what it returned or threw

cfgVars == <<globalFile, localFile, globalConfig, localConfig, mergedConfig, cfgCall,
             cfgPrev>>

cmdVars == <<invocation, options, env, pc, frame, log, status>>

vars == <<globalFile, localFile, globalConfig, localConfig, mergedConfig, cfgCall,
          cfgPrev, invocation, options, env, pc, frame, log, status, fnCall>>

(***************************************************************************)
(* JavaScript values                                                       *)
(***************************************************************************)
\* JavaScript's null.
Null == [null |-> TRUE]

\* A file that does not exist (existsSync is false).
Absent == [absent |-> TRUE]

\* A file whose content parses to something that is not an object.
NotAnObject == [nonobject |-> TRUE]

\* A JSON value that is not a string (a number, say) where a string is expected.
NotAString == <<"#number">>

\* The JavaScript value undefined, as the value of a key that is present.
Undefined == <<"#undefined">>

\* The object with no keys, {}.
EmptyObject == [k \in {} |-> Null]

\* { ...a, ...b }: every own key of a and of b, b's value winning.
Spread(a, b) ==
    [k \in (DOMAIN a) \cup (DOMAIN b) |-> IF k \in DOMAIN b THEN b[k] ELSE a[k]]

\* Whether obj has key k with a value other than undefined. Only manualPrefix,
\* the schema's one optional key, is ever given the value undefined.
Has(obj, k) ==
    /\ k \in DOMAIN obj
    /\ (k = "manualPrefix" => obj[k] # Undefined)

(***************************************************************************)
(* Strings: sequences of characters                                        *)
(***************************************************************************)
\* s.startsWith(p)
StartsWith(s, p) == Len(s) >= Len(p) /\ SubSeq(s, 1, Len(p)) = p

\* s.endsWith(p)
EndsWith(s, p) == Len(s) >= Len(p) /\ SubSeq(s, Len(s) - Len(p) + 1, Len(s)) = p

\* s.substring(n): s without its first n characters.
Drop(s, n) == SubSeq(s, n + 1, Len(s))

\* The characters \s matches, as far as they are modelled.
Newline == "\n"

Whitespace == {" ", Newline}

\* s.trim()
RECURSIVE TrimStart(_)
TrimStart(s) ==
    IF s # <<>> /\ Head(s) \in Whitespace THEN TrimStart(Tail(s)) ELSE s

RECURSIVE TrimEnd(_)
TrimEnd(s) ==
    IF s # <<>> /\ s[Len(s)] \in Whitespace THEN TrimEnd(SubSeq(s, 1, Len(s) - 1)) ELSE s

Trim(s) == TrimEnd(TrimStart(s))

\* s.split(sep) for a one-character separator: the pieces between separators,
\* empty pieces included; the empty string gives one empty piece.
RECURSIVE SplitAcc(_, _, _)
SplitAcc(s, sep, cur) ==
    IF s = <<>> THEN <<cur>>
    ELSE IF Head(s) = sep THEN <<cur>> \o SplitAcc(Tail(s), sep, <<>>)
    ELSE SplitAcc(Tail(s), sep, Append(cur, Head(s)))

Split(s, sep) == SplitAcc(s, sep, <<>>)

\* parts.join(sep)
RECURSIVE JoinWith(_, _)
JoinWith(parts, sep) ==
    IF parts = <<>> THEN <<>>
    ELSE IF Len(parts) = 1 THEN parts[1]
    ELSE parts[1] \o <<sep>> \o JoinWith(Tail(parts), sep)

\* s.split(/\s+/): the pieces between maximal runs of whitespace; a run at the
\* start or the end leaves an empty piece there.
RECURSIVE SplitWsAcc(_, _, _)
SplitWsAcc(s, cur, inRun) ==
    IF s = <<>> THEN <<cur>>
    ELSE IF Head(s) \in Whitespace
         THEN IF inRun THEN SplitWsAcc(Tail(s), cur, TRUE)
              ELSE <<cur>> \o SplitWsAcc(Tail(s), <<>>, TRUE)
    ELSE SplitWsAcc(Tail(s), Append(cur, Head(s)), FALSE)

SplitWs(s) == SplitWsAcc(s, <<>>, FALSE)

(***************************************************************************)
(* Node's path module (posix), used by src/unnamed/part_002 298, 441-460    *)
(***************************************************************************)
Sep == "/"

\* path.isAbsolute(p)
isAbsolute(p) == p # <<>> /\ Head(p) = Sep

\* normalizeString: the segments of p with empty and "." segments dropped and
\* each ".." cancelling the segment before it; a ".." with nothing to cancel
\* is kept when allowAboveRoot and dropped otherwise.
RECURSIVE NormalizeSegs(_, _, _)
NormalizeSegs(segs, acc, allowAboveRoot) ==
    IF segs = <<>> THEN acc
    ELSE LET seg == Head(segs)
             rest == Tail(segs)
         IN  IF seg = <<>> \/ seg = <<".">>
             THEN NormalizeSegs(rest, acc, allowAboveRoot)
             ELSE IF seg = <<".", ".">>
             THEN IF acc # <<>> /\ acc[Len(acc)] # <<".", ".">>
                  THEN NormalizeSegs(rest, SubSeq(acc, 1, Len(acc) - 1), allowAboveRoot)
                  ELSE IF allowAboveRoot
                  THEN NormalizeSegs(rest, Append(acc, seg), allowAboveRoot)
                  ELSE NormalizeSegs(rest, acc, allowAboveRoot)
             ELSE NormalizeSegs(rest, Append(acc, seg), allowAboveRoot)

normalizeString(p, allowAboveRoot) ==
    JoinWith(NormalizeSegs(Split(p, Sep), <<>>, allowAboveRoot), Sep)

\* path.normalize(p): a trailing separator is kept.
normalize(p) ==
    IF p = <<>> THEN <<".">>
    ELSE LET abs == isAbsolute(p)
             trailing == p[Len(p)] = Sep
             n == normalizeString(p, ~abs)
         IN  IF n = <<>>
             THEN IF abs THEN <<Sep>>
                  ELSE IF trailing THEN <<".", Sep>> ELSE <<".">>
             ELSE (IF abs THEN <<Sep>> ELSE <<>>) \o n
                    \o (IF trailing THEN <<Sep>> ELSE <<>>)

\* A join that concatenates without normalizing.
joinRaw(a, b) == a \o <<Sep>> \o b

\* path.join(a, b): the non-empty arguments joined by "/" and normalized.
join(a, b) ==
    IF a = <<>> /\ b = <<>> THEN <<".">>
    ELSE IF a = <<>> THEN normalize(b)
    ELSE IF b = <<>> THEN normalize(a)
    ELSE normalize(a \o <<Sep>> \o b)

\* path.resolve(from, p) for an absolute from: p if absolute, else from/p,
\* normalized with no trailing separator.
resolve2(from, p) ==
    LET full == IF isAbsolute(p) THEN p
                ELSE IF p = <<>> THEN from
                ELSE from \o <<Sep>> \o p
        n == normalizeString(full, FALSE)
    IN  <<Sep>> \o n

(***************************************************************************)
(* Numbers and their decimal text                                          *)
(***************************************************************************)
Digits == <<"0", "1", "2", "3", "4", "5", "6", "7", "8", "9">>

IsDigit(c) == \E i \in 1..10 : Digits[i] = c

DigitValue(c) == (CHOOSE i \in 1..10 : Digits[i] = c) - 1

\* The value of a run of decimal digits.
RECURSIVE DigitsValue(_, _)
DigitsValue(s, acc) ==
    IF s = <<>> THEN acc ELSE DigitsValue(Tail(s), acc * 10 + DigitValue(Head(s)))

\* The longest prefix of s made of digits.
RECURSIVE DigitPrefix(_)
DigitPrefix(s) ==
    IF s # <<>> /\ IsDigit(Head(s)) THEN <<Head(s)>> \o DigitPrefix(Tail(s)) ELSE <<>>

\* parseInt(s, 10): leading whitespace is skipped, one sign is accepted, then the
\* longest run of digits is read and whatever follows it is ignored; NaN when
\* there is no digit there.
parseInt(s) ==
    LET t == TrimStart(s)
        neg == t # <<>> /\ Head(t) = "-"
        u == IF t # <<>> /\ Head(t) \in {"-", "+"} THEN Tail(t) ELSE t
        d == DigitPrefix(u)
    IN  IF d = <<>> THEN [nan |-> TRUE, value |-> 0]
        ELSE [nan |-> FALSE,
              value |-> IF neg THEN 0 - DigitsValue(d, 0) ELSE DigitsValue(d, 0)]

\* n.toString() for n >= 0.
RECURSIVE toString(_)
toString(n) ==
    IF n < 10 THEN <<Digits[n + 1]>> ELSE toString(n \div 10) \o <<Digits[(n % 10) + 1]>>

(***************************************************************************)
(* Name derivation from a change request's source branch                   *)
(* (src/unnamed/part_003 66-88, src/unnamed/part_002 66-88)                *)
(***************************************************************************)
\* The characters of the class [a-zA-Z0-9\-_].
NameChars ==
    {"a", "b", "c", "d", "e", "f", "g", "h", "i", "j", "k", "l", "m", "n", "o", "p", "q",
     "r", "s", "t", "u", "v", "w", "x", "y", "z",
     "A", "B", "C", "D", "E", "F", "G", "H", "I", "J", "K", "L", "M", "N", "O", "P", "Q",
     "R", "S", "T", "U", "V", "W", "X", "Y", "Z",
     "0", "1", "2", "3", "4", "5", "6", "7", "8", "9", "-", "_"}

\* name.replace(/[^a-zA-Z0-9\-_]/g, '-')
ReplaceUnsafe(s) == [i \in 1..Len(s) |-> IF s[i] \in NameChars THEN s[i] ELSE "-"]

\* A second replacement that leaves runs of dashes as they are.
CollapseDashesNot(s) == s

\* name.replace(/-+/g, '-')
RECURSIVE CollapseDashes(_)
CollapseDashes(s) ==
    IF Len(s) < 2 THEN s
    ELSE IF s[1] = "-" /\ s[2] = "-" THEN CollapseDashes(Tail(s))
    ELSE <<s[1]>> \o CollapseDashes(Tail(s))

\* name.replace(/^-+|-+$/g, '')
RECURSIVE StripLeadingDashes(_)
StripLeadingDashes(s) ==
    IF s # <<>> /\ Head(s) = "-" THEN StripLeadingDashes(Tail(s)) ELSE s

RECURSIVE StripTrailingDashes(_)
StripTrailingDashes(s) ==
    IF s # <<>> /\ s[Len(s)] = "-"
    THEN StripTrailingDashes(SubSeq(s, 1, Len(s) - 1)) ELSE s

StripDashes(s) == StripTrailingDashes(StripLeadingDashes(s))

\* The three replacements of generateWorktreeName, in the code's order.
Sanitize(branch) == StripDashes(CollapseDashes(ReplaceUnsafe(branch)))

\* The name generateWorktreeName derives from a source branch: the sanitized
\* branch, or fallback-<id> when that has fewer than 2 characters.
DeriveName(branch, fallback, id) ==
    LET name == Sanitize(branch)
    IN  IF Len(name) < 2 THEN fallback \o <<"-">> \o toString(id) ELSE name

\* GitLabManager.generateWorktreeName, given the merge request's source branch.
GitLabDeriveName(branch, iid) == DeriveName(branch, <<"m", "r">>, iid)

\* GitHubManager.generateWorktreeName, given the pull request's head branch.
GitHubDeriveName(branch, number) == DeriveName(branch, <<"p", "r">>, number)

(***************************************************************************)
(* GitRemoteManager.extractRepoName (src/unnamed/part_002 193-225)         *)
(***************************************************************************)
DotGit == <<".", "g", "i", "t">>

\* The position of the first occurrence of character c in s, 0 if none.
IndexOf(s, c) ==
    IF \E i \in 1..Len(s) : s[i] = c
    THEN CHOOSE i \in 1..Len(s) : s[i] = c /\ \A j \in 1..(i - 1) : s[j] # c
    ELSE 0

\* The lazy group (.+?) followed by optional suffixes and $: the shortest
\* non-empty prefix of t whose remainder is one of `tails`. The whole of t
\* always qualifies when the empty remainder is allowed.
LazyName(t, tails) ==
    LET k == CHOOSE k \in 1..Len(t) :
                 /\ Drop(t, k) \in tails
                 /\ \A j \in 1..(k - 1) : Drop(t, j) \notin tails
    IN  SubSeq(t, 1, k)

\* ([^/]+\/)?(.+?)<tails>$ applied to rest, everything after the host part:
\* the optional first group takes one leading segment and its slash when
\* something is left after it; group 2 is the lazy name. NoMatch when rest is
\* empty.
NoMatch == <<"#nomatch">>

TailMatch(rest, tails) ==
    LET i == IndexOf(rest, Sep)
    IN  IF i > 1 /\ Len(rest) > i THEN LazyName(Drop(rest, i), tails)
        ELSE IF rest # <<>> THEN LazyName(rest, tails)
        ELSE NoMatch

\* /git@[^:]+:([^/]+\/)?(.+?)(?:\.git)?$/ tried at position p of url.
SshMatchAt(url, p) ==
    LET s == Drop(url, p - 1)
        afterAt == Drop(s, 4)
        c == IndexOf(afterAt, ":")
    IN  IF StartsWith(s, <<"g", "i", "t", "@">>) /\ c > 1
        THEN TailMatch(Drop(afterAt, c), {<<>>, DotGit})
        ELSE NoMatch

\* /https?:\/\/[^/]+\/([^/]+\/)?(.+?)(?:\.git)?(?:\/)?$/ tried at position p.
HttpMatchAt(url, p) ==
    LET s == Drop(url, p - 1)
        h == <<"h", "t", "t", "p">>
        afterScheme == IF StartsWith(s, h \o <<"s", ":", "/", "/">>) THEN Drop(s, 8)
                       ELSE IF StartsWith(s, h \o <<":", "/", "/">>) THEN Drop(s, 7)
                       ELSE <<>>
        c == IndexOf(afterScheme, Sep)
    IN  IF c > 1
        THEN TailMatch(Drop(afterScheme, c),
                       {<<>>, DotGit, <<Sep>>, DotGit \o <<Sep>>})
        ELSE NoMatch

\* url.match(re)[2] for an unanchored re, the ssh one or the http one: the
\* match at the leftmost position that has one.
FirstMatch(url, ssh) ==
    LET MatchAt(p) == IF ssh THEN SshMatchAt(url, p) ELSE HttpMatchAt(url, p)
    IN  IF \E p \in 1..Len(url) : MatchAt(p) # NoMatch
        THEN MatchAt(CHOOSE p \in 1..Len(url) :
                         /\ MatchAt(p) # NoMatch
                         /\ \A q \in 1..(p - 1) : MatchAt(q) = NoMatch)
        ELSE NoMatch

\* extractRepoName(url): [ok, name]; ok is FALSE where the code throws GitError.
extractRepoName(url) ==
    LET m == IF StartsWith(url, <<"g", "i", "t", "@">>) THEN FirstMatch(url, TRUE)
             ELSE IF StartsWith(url, <<"h", "t", "t", "p">>) THEN FirstMatch(url, FALSE)
             ELSE NoMatch
    IN  [ok |-> m # NoMatch, name |-> IF m = NoMatch THEN <<>> ELSE m]

(***************************************************************************)
(* The configuration schema (src/src/types/index.ts 4-19)                  *)
(***************************************************************************)
PrefixTypeSchema == {"none", "manual", "detect"}

DefaultPrefixType == "none"

DefaultWorktreeDir == <<".", ".", "/", "w", "o", "r", "k", "t", "r", "e", "e", "s">>

IsString(v) == v # NotAString /\ v # Undefined

\* PostCommandSchema: {label: string, commands: string[]}.
PostCommandValid(g) ==
    /\ g.label # "#number"
    /\ \A i \in 1..Len(g.commands) : IsString(g.commands[i])

\* Whether ConfigSchema.parse(raw) succeeds. A key that is absent, or present
\* with the value undefined, takes its default (manualPrefix: stays undefined).
SchemaValid(raw) ==
    /\ raw # NotAnObject
    /\ raw # Null
    /\ Has(raw, "prefixType") => raw["prefixType"] \in PrefixTypeSchema
    /\ Has(raw, "manualPrefix") => IsString(raw["manualPrefix"])
    /\ Has(raw, "worktreeDir") => IsString(raw["worktreeDir"])
    /\ Has(raw, "postCommands") =>
          \A i \in 1..Len(raw["postCommands"]) : PostCommandValid(raw["postCommands"][i])

\* A parse that fills in no default: a true partial patch.
SchemaParsePartial(raw) == raw

\* The value of ConfigSchema.parse(raw) for a valid raw: unknown keys are
\* stripped (none are modelled), defaults fill prefixType, worktreeDir and
\* postCommands, and manualPrefix is kept only as the key the input had.
SchemaParse(raw) ==
    LET base == [prefixType |-> IF Has(raw, "prefixType") THEN raw["prefixType"]
                                ELSE DefaultPrefixType,
                 worktreeDir |-> IF Has(raw, "worktreeDir") THEN raw["worktreeDir"]
                                 ELSE DefaultWorktreeDir,
                 postCommands |-> IF Has(raw, "postCommands") THEN raw["postCommands"]
                                  ELSE <<>>]
    IN  IF "manualPrefix" \in DOMAIN raw
        THEN Spread(base, [manualPrefix |-> raw["manualPrefix"]])
        ELSE base

\* JSON.parse(JSON.stringify(obj, null, 2)): a key whose value is undefined is
\* dropped; strings, arrays and the other keys come back as they were.
JsonRoundTrip(obj) ==
    [k \in {j \in DOMAIN obj : Has(obj, j)} |-> obj[k]]

(***************************************************************************)
(* ConfigManager (src/tsup.config.ts 225-425)                              *)
(***************************************************************************)
\* A loadLocalConfig without its catch-and-ignore: the content is used as parsed
\* even when it does not validate.
loadLocalConfigUnchecked(file) ==
    IF file = Absent THEN Null ELSE SchemaParse(file)

\* loadLocalConfig: null for a missing file; otherwise the schema's parse of
\* the file's content, and null (logged at debug level) when that throws.
loadLocalConfig(file) ==
    IF file = Absent THEN Null
    ELSE IF SchemaValid(file) THEN SchemaParse(file)
    ELSE Null

\* loadGlobalConfig: the same steps on ~/.kwt.
loadGlobalConfig(file) ==
    IF file = Absent THEN Null
    ELSE IF SchemaValid(file) THEN SchemaParse(file)
    ELSE Null

\* mergeConfigs's defaultConfig literal.
defaultConfig ==
    [prefixType |-> "none", worktreeDir |-> DefaultWorktreeDir, postCommands |-> <<>>]

\* A mergeConfigs that concatenates the two postCommands lists.
mergeConfigsConcat(global, local) ==
    LET m0 == defaultConfig
        m1 == IF global # Null THEN Spread(m0, global) ELSE m0
        m2 == IF local # Null THEN Spread(m1, local) ELSE m1
    IN  IF local # Null
        THEN [m2 EXCEPT !["postCommands"] = m1["postCommands"] \o local["postCommands"]]
        ELSE m2

\* A mergeConfigs that applies the defaults last, over global and local.
mergeConfigsDefaultsLast(global, local) ==
    LET m1 == IF global # Null THEN global ELSE EmptyObject
        m2 == IF local # Null THEN Spread(m1, local) ELSE m1
    IN  Spread(m2, defaultConfig)

\* A mergeConfigs that lets global's keys win over local's.
mergeConfigsGlobalLast(global, local) ==
    LET m0 == defaultConfig
        m1 == IF local # Null THEN Spread(m0, local) ELSE m0
    IN  IF global # Null THEN Spread(m1, global) ELSE m1

\* mergeConfigs(global, local): defaults, then global's keys, then local's keys;
\* local.postCommands (an array, always truthy) is then assigned once more.
mergeConfigs(global, local) ==
    LET m0 == defaultConfig
        m1 == IF global # Null THEN Spread(m0, global) ELSE m0
        m2 == IF local # Null THEN Spread(m1, local) ELSE m1
    IN  IF local # Null /\ "postCommands" \in DOMAIN local
        THEN [m2 EXCEPT !["postCommands"] = local["postCommands"]]
        ELSE m2

\* The record of a ConfigManager call: outcome is "ok" or the error raised,
\* value what it returned, cached whether loadConfig answered from its cache.
Call(op, arg, outcome, value, cached) ==
    [op |-> op, arg |-> arg, outcome |-> outcome, value |-> value, cached |-> cached]

\* What is kept of a call once the next one is made: its name, input and outcome.
Earlier(call) == [op |-> call.op, arg |-> call.arg, outcome |-> call.outcome]

\* A test that never finds a cached merge.
CachedNever(merged) == FALSE

\* if (this.mergedConfig): a merge is cached.
Cached(merged) == merged # Null

\* loadConfig(): the cached merge if there is one; otherwise both files are
\* loaded, merged and cached. It has no throwing path.
LoadConfig ==
    /\ cfgPrev' = Earlier(cfgCall)
    /\ IF Cached(mergedConfig)
       THEN /\ cfgCall' = Call("loadConfig", Null, "ok", mergedConfig, TRUE)
            /\ UNCHANGED <<globalFile, localFile, globalConfig, localConfig, mergedConfig>>
       ELSE LET g == loadGlobalConfig(globalFile)
                l == loadLocalConfig(localFile)
                m == mergeConfigs(g, l)
            IN  /\ globalConfig' = g
                /\ localConfig' = l
                /\ mergedConfig' = m
                /\ cfgCall' = Call("loadConfig", Null, "ok", m, FALSE)
                /\ UNCHANGED <<globalFile, localFile>>

\* saveLocalConfig(config): validate, write, then update the cache; a
\* validation or write failure is rethrown as ConfigError before any update.
SaveLocalConfig(config, writeOk) ==
    /\ cfgPrev' = Earlier(cfgCall)
    /\ IF SchemaValid(config) /\ writeOk
       THEN LET validatedConfig == SchemaParse(config)
            IN  /\ localFile' = JsonRoundTrip(validatedConfig)
                /\ localConfig' = validatedConfig
                /\ mergedConfig' = mergeConfigs(globalConfig, validatedConfig)
                /\ cfgCall' = Call("saveLocalConfig", config, "ok", Null, FALSE)
                /\ UNCHANGED <<globalFile, globalConfig>>
       ELSE /\ cfgCall' = Call("saveLocalConfig", config, "ConfigError", Null, FALSE)
            /\ UNCHANGED <<globalFile, localFile, globalConfig, localConfig, mergedConfig>>

\* saveGlobalConfig(config): the same on ~/.kwt and globalConfig.
SaveGlobalConfig(config, writeOk) ==
    /\ cfgPrev' = Earlier(cfgCall)
    /\ IF SchemaValid(config) /\ writeOk
       THEN LET validatedConfig == SchemaParse(config)
            IN  /\ globalFile' = JsonRoundTrip(validatedConfig)
                /\ globalConfig' = validatedConfig
                /\ mergedConfig' = mergeConfigs(validatedConfig, localConfig)
                /\ cfgCall' = Call("saveGlobalConfig", config, "ok", Null, FALSE)
                /\ UNCHANGED <<localFile, localConfig>>
       ELSE /\ cfgCall' = Call("saveGlobalConfig", config, "ConfigError", Null, FALSE)
            /\ UNCHANGED <<globalFile, localFile, globalConfig, localConfig, mergedConfig>>

(***************************************************************************)
(* The configuration store's inputs                                        *)
(***************************************************************************)
G1 == [label |-> "install", commands |-> <<<<"l", "s">>>>]
G2 == [label |-> "build", commands |-> <<<<"m", "k">>, <<"l", "s">>>>]
GBad == [label |-> "#number", commands |-> <<>>]

WtDir == <<".", "/", "w", "t">>
ManPrefix == <<"p", "-">>

\* The objects a configuration file may hold: each key absent or present, valid
\* or not.
FileObjects ==
    { Spread(pt, ps) :
        pt \in {EmptyObject, [prefixType |-> "detect"], [prefixType |-> "bogus"]},
        ps \in {EmptyObject, [postCommands |-> <<G1>>], [postCommands |-> <<G2, G1>>]} }
    \cup
    { [worktreeDir |-> WtDir],
      [prefixType |-> "bogus", worktreeDir |-> WtDir],
      [manualPrefix |-> ManPrefix],
      [prefixType |-> "manual", manualPrefix |-> ManPrefix],
      [manualPrefix |-> NotAString],
      [worktreeDir |-> NotAString],
      [postCommands |-> <<>>],
      [prefixType |-> "none", postCommands |-> <<GBad>>] }

FileContents == {Absent, NotAnObject} \cup FileObjects

\* The arguments given to saveLocalConfig and saveGlobalConfig.
SaveInputs ==
    { EmptyObject,
      [prefixType |-> "detect"],
      [worktreeDir |-> WtDir, manualPrefix |-> Undefined],
      [prefixType |-> "manual", manualPrefix |-> ManPrefix, postCommands |-> <<G1>>],
      [prefixType |-> "bogus"] }

\* The key=value pairs given to `config --set`; the values are not JSON, so
\* they are kept as the strings given.
SetInputs ==
    { <<"prefixType", "detect">>, <<"prefixType", "bogus">>, <<"worktreeDir", WtDir>> }

\* `config --set key=value [--global]` (src/tsup.config.ts 145-172): the
\* object { [key]: parsedValue } is handed to saveGlobalConfig or saveLocalConfig.
ConfigSet(key, parsedValue, global, writeOk) ==
    LET partialConfig == [k \in {key} |-> parsedValue]
    IN  IF global THEN SaveGlobalConfig(partialConfig, writeOk)
        ELSE SaveLocalConfig(partialConfig, writeOk)

\* A call record of a function: fn its name, args its arguments, result what
\* it returned, or the name of the error it threw.
Applied(fn, args, result) == [fn |-> fn, args |-> args, result |-> result]

\* No function has been called.
FnIdle == fnCall = Applied("none", <<>>, Null)

\* No command is running.
CmdIdle ==
    /\ invocation = Null
    /\ options = EmptyObject
    /\ env = Null
    /\ pc = "idle"
    /\ frame = Null
    /\ log = <<>>
    /\ status = "idle"

CfgInit ==
    /\ CmdIdle
    /\ FnIdle
    /\ globalFile \in FileContents
    /\ localFile \in FileContents
    /\ globalConfig = Null
    /\ localConfig = Null
    /\ mergedConfig = Null
    /\ cfgCall = Call("new", Null, "ok", Null, FALSE)
    /\ cfgPrev = Earlier(Call("new", Null, "ok", Null, FALSE))

CfgNext ==
    \/ LoadConfig /\ UNCHANGED <<cmdVars, fnCall>>
    \/ \E config \in SaveInputs, writeOk \in BOOLEAN :
          SaveLocalConfig(config, writeOk) /\ UNCHANGED <<cmdVars, fnCall>>
    \/ \E config \in SaveInputs, writeOk \in BOOLEAN :
          SaveGlobalConfig(config, writeOk) /\ UNCHANGED <<cmdVars, fnCall>>
    \/ \E kv \in SetInputs, global \in BOOLEAN, writeOk \in BOOLEAN :
          ConfigSet(kv[1], kv[2], global, writeOk) /\ UNCHANGED <<cmdVars, fnCall>>

SpecCfg == CfgInit /\ [][CfgNext]_vars

(***************************************************************************)
(* The command line (src/tsup.config.ts 41-98)                             *)
(***************************************************************************)
\* Global options that never reach the command.
globalOptionsDropped(argv) == EmptyObject

\* commander's program.opts(): a boolean flag that was not given has no key.
globalOptions(argv) ==
    IF argv.dryRun THEN [dryRun |-> TRUE] ELSE EmptyObject

\* commander's options of `new`: --branch <name> sets branch; --no-push is a
\* negatable option, whose key is push: true by default, false when given.
newOptions(argv) ==
    Spread([push |-> ~argv.noPush],
           IF argv.branch # Undefined THEN [branch |-> argv.branch] ELSE EmptyObject)

\* commander's options of `mr` (PRCommandOptions has the same two flags).
mrOptions(argv) ==
    IF argv.checkout THEN [checkout |-> TRUE] ELSE EmptyObject

\* Options of `rm` that lose --force.
rmOptionsWithoutForce(argv) == EmptyObject

\* commander's options of `rm`.
rmOptions(argv) ==
    IF argv.force THEN [force |-> TRUE] ELSE EmptyObject

\* The object the action callbacks pass to execute(): { ...globalOptions, ...options }.
cliOptions(argv) ==
    Spread(globalOptions(argv),
           IF argv.command = "new" THEN newOptions(argv)
           ELSE IF argv.command = "rm" THEN rmOptions(argv)
           ELSE mrOptions(argv))

\* Reading a boolean option: a missing key is undefined, which is falsy.
Flag(opts, k) == k \in DOMAIN opts /\ opts[k] = TRUE

(***************************************************************************)
(* What a command runs and what it is told                                 *)
(***************************************************************************)
\* process.cwd() of the invocation.
Cwd == <<"/","r","e","p","o">>

\* One entry of the log: an external program run to its exit (ExecUtils.run
\* awaits the child), a prompt answered, or a directory deleted.
Exec(kind, op, args, exit) == [kind |-> kind, op |-> op, args |-> args, exit |-> exit]

\* A worktree as listWorktrees reports it.
Worktree(path, branch) == [path |-> path, branch |-> branch]

NoWorktree == Worktree(<<>>, <<>>)

\* The entries that change the repository, the remote or the file system:
\* everything but queries and prompts.
Mutating(e) ==
    \/ e.kind = "git" /\ e.op \in {"worktree add", "worktree remove", "worktree prune",
                                   "fetch", "push", "branch -D"}
    \/ e.kind = "post"
    \/ e.kind = "fs" /\ e.op # "existsSync"

(***************************************************************************)
(* The commands' inputs                                                    *)
(***************************************************************************)
\* A post-command group whose first command is blank.
G3 == [label |-> "lint", commands |-> <<<<" ">>, <<"l","s"," ","-","a">>>>]

\* ~/.kwt and ./.kwt as the commands find them.
CmdGlobalFiles ==
    {Absent, [prefixType |-> "manual", manualPrefix |-> ManPrefix,
              worktreeDir |-> WtDir, postCommands |-> <<G2, G1>>]}

CmdLocalFiles ==
    {Absent, [prefixType |-> "detect", postCommands |-> <<G3>>], [prefixType |-> "manual"]}

\* The names given to `new` and `rm`, and the numbers given to `mr` and `pr`.
Names == {<<"a">>, <<"f","-","a">>}

RmNames == Names \cup {<<"d">>}

\* The names given to `new`: also one with a slash, as branch names have, and
\* one that climbs out of its directory.
NewNames == Names \cup {<<"f","/","a">>, <<".",".","/","x">>}

Numbers == {<<"7">>, <<"7","x">>, <<"0">>, <<"x">>, <<"-","3">>, <<>>}

\* The branch given with --branch.
BranchOption == <<"b">>

\* The source branches a change request may have: one that sanitizes to f-a,
\* one that sanitizes to nothing.
CrBranches == {<<"f","/","a">>, <<"!">>}

\* What `git remote -v` may list: nothing, origin for fetch and push, origin
\* for push only after another remote, origin for fetch after another remote.
OriginRemote(type) == [name |-> "origin", url |-> <<"g","i","t","@","h",":","u","/","k","w","t",".","g","i","t">>, type |-> type]

UpstreamRemote(type) == [name |-> "upstream", url |-> <<"g","i","t","@","h",":","u","/","u","p",".","g","i","t">>, type |-> type]

RemoteAnswers ==
    { <<>>,
      <<OriginRemote("fetch"), OriginRemote("push")>>,
      <<UpstreamRemote("fetch"), UpstreamRemote("push"), OriginRemote("push")>>,
      <<UpstreamRemote("fetch"), OriginRemote("fetch")>> }

\* What `git worktree list` may report: the main worktree alone, or also a
\* worktree named f-a, p-f-a or kwt-f-a under each worktree directory, and a
\* detached one.
MainWorktree == Worktree(Cwd, <<"m","a","i","n">>)

Listings ==
    { <<MainWorktree>>,
      <<MainWorktree,
        Worktree(<<"/","w","o","r","k","t","r","e","e","s","/","f","-","a">>, <<"f","-","a">>),
        Worktree(<<"/","r","e","p","o","/","w","t","/","p","-","f","-","a">>, <<"p","-","f","-","a">>),
        Worktree(<<"/","w","o","r","k","t","r","e","e","s","/","k","w","t","-","f","-","a">>, <<"k","w","t","-","f","-","a">>),
        Worktree(<<"/","r","e","p","o","/","w","t","/","k","w","t","-","f","-","a">>, <<"k","w","t","-","f","-","a">>),
        Worktree(<<"/","r","e","p","o","/","w","t","/","d">>, <<>>)>> }

\* The command lines: kwt new <name> [--branch b] [--no-push] [--dry-run],
\* kwt mr|pr <number> [--checkout] [--dry-run], kwt rm <name> [--force] [--dry-run].
Argv(command, arg, dryRun, noPush, branch, checkout, force) ==
    [command |-> command, arg |-> arg, dryRun |-> dryRun, noPush |-> noPush,
     branch |-> branch, checkout |-> checkout, force |-> force]

Argvs ==
    { Argv("new", arg, dryRun, noPush, branch, FALSE, FALSE) :
        arg \in NewNames, dryRun \in BOOLEAN, noPush \in BOOLEAN,
        branch \in {Undefined, BranchOption} }
    \cup
    { Argv(command, arg, dryRun, FALSE, Undefined, checkout, FALSE) :
        command \in {"mr", "pr"}, arg \in Numbers, dryRun \in BOOLEAN,
        checkout \in BOOLEAN }
    \cup
    { Argv("rm", arg, dryRun, FALSE, Undefined, FALSE, force) :
        arg \in RmNames, dryRun \in BOOLEAN, force \in BOOLEAN }

(***************************************************************************)
(* BaseCommand (src/src/commands/base.ts 6-130)                            *)
(***************************************************************************)
\* An isGitRepo that takes every directory for a repository.
isGitRepoAlways(exit) == TRUE

\* GitRemoteManager.isGitRepo (src/unnamed/part_002 239-246): whether
\* `git rev-parse --git-dir` exited with 0.
isGitRepo(exit) == exit = 0

\* A runOrThrow that never throws.
runOrThrowNever(exit) == FALSE

\* ExecUtils.runOrThrow (src/unnamed/part_001 45-59) throws when the program
\* exited with a non-zero code.
runOrThrowThrows(exit) == exit # 0

\* throw: execute() ends with the error.
Throw(err) == pc' = "done" /\ status' = err

\* return: execute() ends normally.
Return == pc' = "done" /\ status' = "ok"

Run(e) == log' = Append(log, e)

IsChangeRequest == invocation.command \in {"mr", "pr"}

\* config.postCommands of the running command.
PostCommands == frame.config["postCommands"]

\* command.trim().split(/\s+/): the program and its arguments.
CommandParts(command) == SplitWs(Trim(command))

\* executePostCommand skips a command whose program is empty.
IsEmptyCommand(command) == CommandParts(command)[1] = <<>>

\* The next command executePostCommands runs at or after command ci of group
\* gi: empty commands and exhausted groups are passed over. Past the last
\* group, <<Len + 1, 1>>.
RECURSIVE NextCommand(_, _, _)
NextCommand(groups, gi, ci) ==
    IF gi > Len(groups) THEN <<gi, 1>>
    ELSE IF ci > Len(groups[gi].commands) THEN NextCommand(groups, gi + 1, 1)
    ELSE IF IsEmptyCommand(groups[gi].commands[ci]) THEN NextCommand(groups, gi, ci + 1)
    ELSE <<gi, ci>>

\* What follows the post-commands: `new` pushes unless options.noPush is set;
\* mr and pr are done.
AfterPostCommands ==
    IF invocation.command = "new" /\ ~Flag(options, "noPush")
    THEN pc' = "push" /\ status' = status
    ELSE Return

\* Continue with the post-command at position pos, or with what follows them.
ContinueAt(pos) ==
    /\ frame' = [frame EXCEPT !.gi = pos[1], !.ci = pos[2]]
    /\ IF pos[1] > Len(PostCommands)
       THEN AfterPostCommands
       ELSE pc' = "executePostCommand" /\ status' = status

\* initialize(): loadConfig, then `git rev-parse --git-dir` decides whether
\* this is a repository. mr and pr go on to parse their number
\* (MRCommand.execute 136-141, PRCommand.execute 233-238).
Initialize ==
    /\ pc = "initialize"
    /\ LoadConfig
    /\ \E exit \in {0, 1} :
          /\ Run(Exec("git", "rev-parse", <<<<"-","-","g","i","t","-","d","i","r">>>>, exit))
          /\ IF ~isGitRepo(exit)
             THEN /\ Throw("Not in a git repository")
                  /\ frame' = [frame EXCEPT !.config = mergedConfig']
             ELSE IF IsChangeRequest
             THEN LET n == parseInt(invocation.arg)
                  IN  IF n.nan \/ n.value <= 0
                      THEN /\ Throw("Invalid number")
                           /\ frame' = [frame EXCEPT !.config = mergedConfig']
                      ELSE /\ pc' = "isProject"
                           /\ status' = status
                           /\ frame' = [frame EXCEPT !.config = mergedConfig',
                                                     !.iid = n.value]
             ELSE /\ pc' = "generateWorktreeName"
                  /\ status' = status
                  /\ frame' = [frame EXCEPT !.config = mergedConfig',
                                            !.baseName = invocation.arg]
    /\ UNCHANGED <<invocation, options, env>>

\* GitWorktreeManager.resolveWorktreePath (src/unnamed/part_002 458-461).
resolveWorktreePathIn(cwd, worktreeDir, name) ==
    LET baseDir == IF isAbsolute(worktreeDir) THEN worktreeDir ELSE join(cwd, worktreeDir)
    IN  join(baseDir, name)

\* The same for the commands, whose managers are constructed in process.cwd().
resolveWorktreePath(worktreeDir, name) == resolveWorktreePathIn(Cwd, worktreeDir, name)

\* With the prefix known: the worktree name is prefix + baseName and its path
\* is resolved; `rm` goes on to look the worktree up, the others to the guard.
NamedWith(prefix, remotes) ==
    LET worktreeName == prefix \o frame.baseName
    IN  /\ frame' = [frame EXCEPT
                        !.remotes = remotes,
                        !.worktreeName = worktreeName,
                        !.worktreePath =
                            resolveWorktreePath(frame.config["worktreeDir"], worktreeName)]
        /\ pc' = IF invocation.command = "rm" THEN "findWorktreeByName"
                 ELSE "worktreeExists"
        /\ status' = status

\* generateWorktreeName with prefixType none or manual: no command is run.
GenerateNameStatic ==
    /\ pc = "generateWorktreeName"
    /\ frame.config["prefixType"] \in {"none", "manual"}
    /\ NamedWith(IF frame.config["prefixType"] = "none" THEN <<>>
                 ELSE IF Has(frame.config, "manualPrefix") THEN frame.config["manualPrefix"]
                 ELSE <<>>,
                 <<>>)
    /\ UNCHANGED <<invocation, options, env, log, cfgVars>>

\* A getOriginUrl that takes the first remote listed, whatever its name.
OriginUrlOfFirst(remotes) == IF remotes = <<>> THEN NoMatch ELSE remotes[1].url

\* getOriginUrl: the url of the remote named origin with type fetch, or NoMatch.
OriginUrl(remotes) ==
    IF \E i \in 1..Len(remotes) : remotes[i].name = "origin" /\ remotes[i].type = "fetch"
    THEN remotes[CHOOSE i \in 1..Len(remotes) :
                    /\ remotes[i].name = "origin" /\ remotes[i].type = "fetch"
                    /\ \A j \in 1..(i - 1) :
                          ~(remotes[j].name = "origin" /\ remotes[j].type = "fetch")].url
    ELSE NoMatch

\* generateWorktreeName with prefixType detect: `git remote -v` is run; its
\* failure, a missing origin and an unparseable url are GitErrors.
GenerateNameDetect ==
    /\ pc = "generateWorktreeName"
    /\ frame.config["prefixType"] = "detect"
    /\ \E exit \in {0, 1}, remotes \in RemoteAnswers :
          /\ exit # 0 => remotes = <<>>
          /\ Run(Exec("git", "remote", <<<<"-","v">>>>, exit))
          /\ IF exit # 0 \/ OriginUrl(remotes) = NoMatch
                \/ ~extractRepoName(OriginUrl(remotes)).ok
             THEN Throw("GitError") /\ frame' = [frame EXCEPT !.remotes = remotes]
             ELSE NamedWith(extractRepoName(OriginUrl(remotes)).name \o <<"-">>, remotes)
    /\ UNCHANGED <<invocation, options, env, cfgVars>>

\* A worktreeExists that finds nothing.
worktreeExistsNever(worktrees, path) == FALSE

\* GitWorktreeManager.worktreeExists's comparison (src/unnamed/part_002 441-442).
worktreeExists(worktrees, path) ==
    LET absolutePath == IF isAbsolute(path) THEN path ELSE resolve2(Cwd, path)
    IN  \E i \in 1..Len(worktrees) : resolve2(Cwd, worktrees[i].path) = absolutePath

\* The guard: `git worktree list --porcelain` is run and the target path looked
\* up. `new` throws on a hit; mr and pr return on a hit with --checkout and
\* throw without; with no hit, mr and pr return here under --dry-run.
WorktreeExists ==
    /\ pc = "worktreeExists"
    /\ \E exit \in {0, 1} :
          /\ Run(Exec("git", "worktree list", <<<<"-","-","p","o","r","c","e","l","a","i","n">>>>, exit))
          /\ IF exit # 0 THEN Throw("GitError")
             ELSE IF worktreeExists(env.worktrees, frame.worktreePath)
             THEN IF IsChangeRequest /\ Flag(options, "checkout")
                  THEN Return
                  ELSE Throw("Worktree already exists")
             ELSE IF IsChangeRequest
             THEN IF Flag(options, "dryRun") THEN Return
                  ELSE pc' = "fetchBranch" /\ status' = status
             ELSE pc' = "branchExists" /\ status' = status
    /\ UNCHANGED <<invocation, options, env, frame, cfgVars>>

\* An argument list that detaches whenever no branch is created.
createWorktreeArgsDetaching(path, branchName, createBranch, force, checkout) ==
    (IF force THEN <<<<"-","-","f","o","r","c","e">>>> ELSE <<>>)
    \o (IF createBranch THEN <<<<"-","b">>, branchName>>
        ELSE <<<<"-","-","d","e","t","a","c","h">>>>)
    \o <<path>>
    \o (IF ~createBranch /\ checkout THEN <<branchName>> ELSE <<>>)

\* createWorktree's argument list after `git worktree add`
\* (src/unnamed/part_002 367-383).
createWorktreeArgs(path, branchName, createBranch, force, checkout) ==
    (IF force THEN <<<<"-","-","f","o","r","c","e">>>> ELSE <<>>)
    \o (IF createBranch THEN <<<<"-","b">>, branchName>>
        ELSE IF ~checkout THEN <<<<"-","-","d","e","t","a","c","h">>>> ELSE <<>>)
    \o <<path>>
    \o (IF ~createBranch /\ checkout THEN <<branchName>> ELSE <<>>)

\* createWorktree, as `new` calls it (a new branch) and as mr and pr call it
\* (the existing branch), then on to the post-commands if there are any.
CreateWorktree ==
    /\ pc = "createWorktree"
    /\ \E exit \in {0, 1} :
          /\ Run(Exec("git", "worktree add",
                      createWorktreeArgs(frame.worktreePath, frame.branchName,
                                         invocation.command = "new", FALSE, TRUE),
                      exit))
          /\ IF exit # 0 THEN Throw("GitError") /\ frame' = frame
             ELSE ContinueAt(NextCommand(PostCommands, 1, 1))
    /\ UNCHANGED <<invocation, options, env, cfgVars>>

\* executePostCommand's loop body for one command: it is run in the worktree
\* and awaited; a non-zero exit is rethrown and ends the whole operation.
ExecutePostCommand ==
    /\ pc = "executePostCommand"
    /\ \E exit \in {0, 1} :
          /\ Run(Exec("post", PostCommands[frame.gi].label,
                      CommandParts(PostCommands[frame.gi].commands[frame.ci]), exit))
          /\ IF runOrThrowThrows(exit) THEN Throw("EXEC_ERROR") /\ frame' = frame
             ELSE ContinueAt(NextCommand(PostCommands, frame.gi, frame.ci + 1))
    /\ UNCHANGED <<invocation, options, env, cfgVars>>

(***************************************************************************)
(* NewCommand (src/src/commands/base.ts 136-223)                           *)
(***************************************************************************)
\* The branch check: options.branch || worktreeName must not exist locally
\* (`git show-ref --verify` exits 0 when it does); then the dry-run return.
BranchExists ==
    /\ pc = "branchExists"
    /\ LET branchName == IF "branch" \in DOMAIN options /\ options["branch"] # <<>>
                         THEN options["branch"] ELSE frame.worktreeName
       IN  /\ frame' = [frame EXCEPT !.branchName = branchName]
           /\ \E exit \in {0, 1} :
                 /\ Run(Exec("git", "show-ref", <<<<"r","e","f","s","/","h","e","a","d","s","/">> \o branchName>>, exit))
                 /\ IF exit = 0 THEN Throw("Branch already exists")
                    ELSE IF Flag(options, "dryRun") THEN Return
                    ELSE pc' = "createWorktree" /\ status' = status
    /\ UNCHANGED <<invocation, options, env, cfgVars>>

\* `git push -u origin <branch>`: a failure is reported as a warning and the
\* command still succeeds.
Push ==
    /\ pc = "push"
    /\ \E exit \in {0, 1} :
          Run(Exec("git", "push", <<<<"-","u">>, <<"o","r","i","g","i","n">>, frame.branchName>>, exit))
    /\ Return
    /\ UNCHANGED <<invocation, options, env, frame, cfgVars>>

(***************************************************************************)
(* MRCommand (src/unnamed/part_004 132-229), PRCommand                     *)
(* (src/src/commands/base.ts 229-323), GitLabManager (src/unnamed/part_003)*)
(* and GitHubManager (src/unnamed/part_002 6-132). The two commands and the *)
(* two managers are the same code but for the program they run, glab or gh, *)
(* and the fallback name, mr-<n> or pr-<n>.                                 *)
(***************************************************************************)
HostingCli == IF invocation.command = "mr" THEN "glab" ELSE "gh"

ViewOp == IF invocation.command = "mr" THEN "mr view" ELSE "pr view"

\* The hosting CLI's answer when it fails.
QueryFailed == <<"#failed">>

\* ExecUtils.exists (src/unnamed/part_001 61-68): `which` is run, and since
\* ExecUtils.run reports a failure in its result and never throws, the answer
\* is true whatever `which` found.
exists(exit) == TRUE

\* `which <cli>` as isGlabAvailable and isGhAvailable run it.
Which == Exec("which", HostingCli, <<>>, IF env.installed THEN 0 ELSE 1)

\* The answers `<cli> mr|pr view` can give: the source branch of the change
\* request, or a failure; a program that is not installed can only fail.
ViewAnswers == IF env.installed THEN CrBranches \cup {QueryFailed} ELSE {QueryFailed}

\* getMergeRequest / getPullRequest: `which`, then the view command.
View(answer) ==
    <<Which, Exec(HostingCli, ViewOp, <<toString(frame.iid)>>,
                  IF answer = QueryFailed THEN 1 ELSE 0)>>

\* isGitLabProject / isGitHubProject for the program cli: `which`; false when
\* isAvailable says no; otherwise `<cli> repo view` through runOrThrow inside
\* try/catch. ran is what was run, value what is returned.
isProject(cli, whichExit, viewExit) ==
    LET which == Exec("which", cli, <<>>, whichExit)
    IN  IF ~exists(whichExit) THEN [ran |-> <<which>>, value |-> FALSE]
        ELSE [ran |-> <<which, Exec(cli, "repo view", <<>>, viewExit)>>,
              value |-> ~runOrThrowThrows(viewExit)]

\* The command's check that it is in a project of the hosting service.
IsProject ==
    /\ pc = "isProject"
    /\ \E exit \in IF env.installed THEN {0, 1} ELSE {1} :
          LET answer == isProject(HostingCli, Which.exit, exit)
          IN  /\ log' = log \o answer.ran
              /\ IF answer.value
                 THEN pc' = "getChangeRequest" /\ status' = status
                 ELSE Throw("Not in a hosting project")
    /\ UNCHANGED <<invocation, options, env, frame, cfgVars>>

\* mr = getMergeRequest(iid): the change request whose source branch the
\* worktree is later created from.
GetChangeRequest ==
    /\ pc = "getChangeRequest"
    /\ \E answer \in ViewAnswers :
          /\ log' = log \o View(answer)
          /\ IF answer = QueryFailed
             THEN Throw("HostingError") /\ frame' = frame
             ELSE /\ frame' = [frame EXCEPT !.cr = answer, !.branchName = answer]
                  /\ pc' = "hostingGenerateWorktreeName"
                  /\ status' = status
    /\ UNCHANGED <<invocation, options, env, cfgVars>>

\* gitLabManager.generateWorktreeName(iid): the change request is asked for
\* again and the name derived from that answer's source branch.
HostingGenerateWorktreeName ==
    /\ pc = "hostingGenerateWorktreeName"
    /\ \E answer \in ViewAnswers :
          /\ log' = log \o View(answer)
          /\ IF answer = QueryFailed
             THEN Throw("HostingError") /\ frame' = frame
             ELSE /\ frame' = [frame EXCEPT !.baseName =
                                  IF invocation.command = "mr"
                                  THEN GitLabDeriveName(answer, frame.iid)
                                  ELSE GitHubDeriveName(answer, frame.iid)]
                  /\ pc' = "generateWorktreeName"
                  /\ status' = status
    /\ UNCHANGED <<invocation, options, env, cfgVars>>

\* fetchMergeRequestBranch(iid): the change request is asked for a third time;
\* `git fetch origin b:b`, and if that fails `git fetch origin b`.
FetchBranch ==
    /\ pc = "fetchBranch"
    /\ \E answer \in ViewAnswers, exit1 \in {0, 1}, exit2 \in {0, 1} :
          IF answer = QueryFailed
          THEN /\ log' = log \o View(answer)
               /\ Throw("HostingError")
          ELSE LET first == Exec("git", "fetch",
                                 <<<<"o","r","i","g","i","n">>, answer \o <<":">> \o answer>>, exit1)
                   second == Exec("git", "fetch", <<<<"o","r","i","g","i","n">>, answer>>, exit2)
               IN  IF ~runOrThrowThrows(exit1)
                   THEN /\ exit2 = 0
                        /\ log' = log \o View(answer) \o <<first>>
                        /\ pc' = "createWorktree" /\ status' = status
                   ELSE /\ log' = log \o View(answer) \o <<first, second>>
                        /\ IF ~runOrThrowThrows(exit2)
                           THEN pc' = "createWorktree" /\ status' = status
                           ELSE Throw("HostingError")
    /\ UNCHANGED <<invocation, options, env, frame, cfgVars>>

(***************************************************************************)
(* RemoveCommand (src/unnamed/part_004 6-126)                              *)
(***************************************************************************)
\* findWorktreeByName's search (src/unnamed/part_002 450-452): the first
\* worktree whose path ends with /name, or NoWorktree.
findWorktreeByName(worktrees, name) ==
    LET hit(i) == EndsWith(worktrees[i].path, <<"/">> \o name)
                    \/ EndsWith(worktrees[i].path, <<"\\">> \o name)
    IN  IF \E i \in 1..Len(worktrees) : hit(i)
        THEN worktrees[CHOOSE i \in 1..Len(worktrees) :
                          hit(i) /\ \A j \in 1..(i - 1) : ~hit(j)]
        ELSE NoWorktree

ListWorktrees(exit) == Exec("git", "worktree list", <<<<"-","-","p","o","r","c","e","l","a","i","n">>>>, exit)

\* The lookup: by the prefixed name, then by the bare name, each listing the
\* worktrees; when neither finds it they are listed once more and the command
\* throws. A found worktree ends the command here under --dry-run.
FindWorktreeByName ==
    /\ pc = "findWorktreeByName"
    /\ LET byFull == findWorktreeByName(env.worktrees, frame.worktreeName)
           byName == findWorktreeByName(env.worktrees, invocation.arg)
           Found(wt) ==
               /\ frame' = [frame EXCEPT !.found = wt]
               /\ IF Flag(options, "dryRun") THEN Return
                  ELSE IF Flag(options, "force")
                  THEN pc' = "removeWorktree" /\ status' = status
                  ELSE pc' = "confirm" /\ status' = status
       IN  \/ /\ log' = log \o <<ListWorktrees(1)>>
              /\ Throw("GitError") /\ frame' = frame
           \/ /\ byFull # NoWorktree
              /\ log' = log \o <<ListWorktrees(0)>>
              /\ Found(byFull)
           \/ /\ byFull = NoWorktree
              /\ log' = log \o <<ListWorktrees(0), ListWorktrees(1)>>
              /\ Throw("GitError") /\ frame' = frame
           \/ /\ byFull = NoWorktree /\ byName # NoWorktree
              /\ log' = log \o <<ListWorktrees(0), ListWorktrees(0)>>
              /\ Found(byName)
           \/ /\ byFull = NoWorktree /\ byName = NoWorktree
              /\ \E exit \in {0, 1} :
                    /\ log' = log \o <<ListWorktrees(0), ListWorktrees(0),
                                       ListWorktrees(exit)>>
                    /\ Throw(IF exit = 0 THEN "Worktree not found" ELSE "GitError")
              /\ frame' = frame
    /\ UNCHANGED <<invocation, options, env, cfgVars>>

\* The first prompt, asked unless --force: declining ends the command.
Confirm ==
    /\ pc = "confirm"
    /\ \E confirmed \in BOOLEAN :
          /\ Run(Exec("prompt", "confirmed", <<frame.found.path>>,
                      IF confirmed THEN 0 ELSE 1))
          /\ IF confirmed THEN pc' = "removeWorktree" /\ status' = status
             ELSE Return
    /\ UNCHANGED <<invocation, options, env, frame, cfgVars>>

\* removeWorktree's argument list after `git worktree remove`.
removeWorktreeArgs(path, force) ==
    (IF force THEN <<<<"-","-","f","o","r","c","e">>>> ELSE <<>>) \o <<path>>

\* What the catch block of removeWorktree does after git failed (src/unnamed/
\* part_002 414-427): with force, existsSync(path) is asked; when the directory
\* is there, rmSync deletes it and, rmSync not having thrown, ExecUtils.run
\* prunes the worktrees, which returns whatever prune's exit code; rmSync
\* throwing is caught and logged as a warning.
ManualCleanup(path, force, existsSync, rmOk, pruneExit) ==
    IF ~force THEN <<>>
    ELSE <<Exec("fs", "existsSync", <<path>>, IF existsSync THEN 0 ELSE 1)>> \o
         (IF ~existsSync THEN <<>>
          ELSE <<Exec("fs", "rmSync", <<path>>, IF rmOk THEN 0 ELSE 1)>> \o
               (IF rmOk
                THEN <<Exec("git", "worktree prune", <<>>, pruneExit)>>
                ELSE <<Exec("warn", "Manual cleanup also failed", <<>>, 0)>>))

\* removeWorktree(path, options.force) (src/unnamed/part_002 400-434): when
\* git fails and force is set and the directory is there, it is deleted and
\* the worktrees pruned; the failure is rethrown either way. On success the
\* second prompt follows unless --force or the worktree has no branch.
RemoveWorktree ==
    /\ pc = "removeWorktree"
    /\ LET force == Flag(options, "force")
           path == frame.found.path
           remove(exit) == Exec("git", "worktree remove",
                                removeWorktreeArgs(path, force), exit)
       IN  \/ /\ Run(remove(0))
              /\ IF ~force /\ frame.found.branch # <<>>
                 THEN pc' = "confirmDeleteBranch" /\ status' = status
                 ELSE Return
           \/ /\ \E existsSync \in BOOLEAN, rmOk \in BOOLEAN, exit \in {0, 1} :
                    log' = log \o <<remove(1)>>
                               \o ManualCleanup(path, force, existsSync, rmOk, exit)
              /\ Throw("GitError")
    /\ UNCHANGED <<invocation, options, env, frame, cfgVars>>

\* The second prompt: declining ends the command with the branch kept.
ConfirmDeleteBranch ==
    /\ pc = "confirmDeleteBranch"
    /\ \E deleteBranch \in BOOLEAN :
          /\ Run(Exec("prompt", "deleteBranch", <<frame.found.branch>>,
                      IF deleteBranch THEN 0 ELSE 1))
          /\ IF deleteBranch THEN pc' = "deleteBranch" /\ status' = status
             ELSE Return
    /\ UNCHANGED <<invocation, options, env, frame, cfgVars>>

\* `git branch -D <branch>`, then `git push origin --delete <branch>`; the
\* failure of either is reported and the command still succeeds.
DeleteBranch ==
    /\ pc = "deleteBranch"
    /\ \E exit1 \in {0, 1}, exit2 \in {0, 1} :
          LET branch == frame.found.branch
              local == Exec("git", "branch -D", <<branch>>, exit1)
              remote == Exec("git", "push", <<<<"o","r","i","g","i","n">>, <<"-","-","d","e","l","e","t","e">>, branch>>, exit2)
          IN  IF exit1 = 0
              THEN log' = log \o <<local, remote>>
              ELSE exit2 = 0 /\ log' = log \o <<local>>
    /\ Return
    /\ UNCHANGED <<invocation, options, env, frame, cfgVars>>

(***************************************************************************)
(* One invocation of a command                                             *)
(***************************************************************************)
CmdInit ==
    /\ FnIdle
    /\ globalFile \in CmdGlobalFiles
    /\ localFile \in CmdLocalFiles
    /\ globalConfig = Null
    /\ localConfig = Null
    /\ mergedConfig = Null
    /\ cfgCall = Call("new", Null, "ok", Null, FALSE)
    /\ cfgPrev = Earlier(Call("new", Null, "ok", Null, FALSE))
    /\ invocation \in Argvs
    /\ options = cliOptions(invocation)
    /\ env \in [worktrees : Listings, installed : BOOLEAN]
    /\ pc = "initialize"
    /\ frame = [config |-> Null, baseName |-> <<>>, worktreeName |-> <<>>,
                worktreePath |-> <<>>, branchName |-> <<>>, iid |-> 0, cr |-> <<>>,
                found |-> NoWorktree, gi |-> 0, ci |-> 0, remotes |-> <<>>]
    /\ log = <<>>
    /\ status = "running"

CmdNext ==
    \/ Initialize /\ UNCHANGED fnCall
    \/ GenerateNameStatic /\ UNCHANGED fnCall
    \/ GenerateNameDetect /\ UNCHANGED fnCall
    \/ WorktreeExists /\ UNCHANGED fnCall
    \/ BranchExists /\ UNCHANGED fnCall
    \/ CreateWorktree /\ UNCHANGED fnCall
    \/ ExecutePostCommand /\ UNCHANGED fnCall
    \/ Push /\ UNCHANGED fnCall
    \/ IsProject /\ UNCHANGED fnCall
    \/ GetChangeRequest /\ UNCHANGED fnCall
    \/ HostingGenerateWorktreeName /\ UNCHANGED fnCall
    \/ FetchBranch /\ UNCHANGED fnCall
    \/ FindWorktreeByName /\ UNCHANGED fnCall
    \/ Confirm /\ UNCHANGED fnCall
    \/ RemoveWorktree /\ UNCHANGED fnCall
    \/ ConfirmDeleteBranch /\ UNCHANGED fnCall
    \/ DeleteBranch /\ UNCHANGED fnCall

SpecCmd == CmdInit /\ [][CmdNext]_vars

(***************************************************************************)
(* Calls of the functions and methods that keep no state                   *)
(***************************************************************************)
\* No ConfigManager call has been made and there are no configuration files.
CfgIdle ==
    /\ globalFile = Absent
    /\ localFile = Absent
    /\ globalConfig = Null
    /\ localConfig = Null
    /\ mergedConfig = Null
    /\ cfgCall = Call("new", Null, "ok", Null, FALSE)
    /\ cfgPrev = Earlier(Call("new", Null, "ok", Null, FALSE))

\* The parts remote URLs are made of.
UrlUsers == {<<"g","i","t">>, <<"a","l">>}

UrlHost == <<"h",".","i","o">>

UrlGroups == {<<>>, <<"g">>}

UrlNames == {<<"r">>, <<"a","-","b">>, <<"x",".","y">>}

UrlSuffixes == {<<>>, DotGit}

UrlSchemes == {<<"h","t","t","p">>, <<"h","t","t","p","s">>}

\* user@host:[group/]name[.git]
SshUrl(user, group, name, suffix) ==
    user \o <<"@">> \o UrlHost \o <<":">>
        \o (IF group = <<>> THEN <<>> ELSE group \o <<Sep>>) \o name \o suffix

\* scheme://host/[group/]name[.git][/]
HttpUrl(scheme, group, name, suffix, slash) ==
    scheme \o <<":", Sep, Sep>> \o UrlHost \o <<Sep>>
        \o (IF group = <<>> THEN <<>> ELSE group \o <<Sep>>) \o name \o suffix \o slash

SshUrls ==
    { SshUrl(user, group, name, suffix) :
        user \in UrlUsers, group \in UrlGroups, name \in UrlNames, suffix \in UrlSuffixes }

HttpUrls ==
    { HttpUrl(scheme, group, name, suffix, slash) :
        scheme \in UrlSchemes, group \in UrlGroups, name \in UrlNames,
        suffix \in UrlSuffixes, slash \in {<<>>, <<Sep>>} }

\* URLs of neither style.
ForeignUrls == { <<"f","t","p",":","/","/","h",".","i","o","/","r">>, <<"i","n","v","a","l","i","d","-","u","r","l">>, <<>>, <<"/","s","r","v","/","r",".","g","i","t">>, <<"s","s","h",":","/","/","g","i","t","@","h",".","i","o","/","g","/","r",".","g","i","t">> }

\* URLs of the two styles with no name where the shape has one.
NamelessUrls == { <<"g","i","t","@","h",".","i","o",":">>, <<"h","t","t","p","s",":","/","/","h",".","i","o","/">>, <<"h","t","t","p","s",":","/","/","h",".","i","o">>, <<"g","i","t","@","h",".","i","o",":","g","/">>, <<"h","t","t","p","s",":","/","/","h",".","i","o","/","/">> }

\* URLs with more than one group before the name.
NestedUrls == { <<"g","i","t","@","h",".","i","o",":","g","/","s","/","r",".","g","i","t">>, <<"h","t","t","p","s",":","/","/","h",".","i","o","/","g","/","s","/","r",".","g","i","t">> }

Urls == SshUrls \cup HttpUrls \cup ForeignUrls \cup NamelessUrls \cup NestedUrls

\* extractRepoName(url) is called.
ExtractRepoName ==
    /\ FnIdle
    /\ \E url \in Urls :
          fnCall' = Applied("extractRepoName", <<url>>, extractRepoName(url))
    /\ UNCHANGED <<cfgVars, cmdVars>>

\* The source branches of change requests: every string of at most
\* MaxBranchLen of these characters, and the longer one of the documentation.
BranchChars == {"a", "B", "1", "_", "-", "/", "!"}

MaxBranchLen == 4

DocumentedBranch == <<"f","e","a","t","u","r","e","/","A","B","C","-","1","2","3","_","f","i","x","!","!">>

SourceBranches ==
    UNION {[1..n -> BranchChars] : n \in 0..MaxBranchLen} \cup {DocumentedBranch}

\* The numbers of change requests.
Ids == {7, 12}

\* gitLabManager.generateWorktreeName(iid) or gitHubManager.generateWorktreeName(number)
\* is called, and the hosting CLI reports the source branch.
GenerateWorktreeName ==
    /\ FnIdle
    /\ \E branch \in SourceBranches, id \in Ids :
          \/ fnCall' = Applied("GitLabManager.generateWorktreeName", <<branch, id>>,
                               GitLabDeriveName(branch, id))
          \/ fnCall' = Applied("GitHubManager.generateWorktreeName", <<branch, id>>,
                               GitHubDeriveName(branch, id))
    /\ UNCHANGED <<cfgVars, cmdVars>>

\* The working directories, worktree directories and names given to
\* resolveWorktreePath.
WorkingDirs == {<<"/","r","e","p","o">>, <<"/","r","e","p","o","/">>, <<Sep>>}

WorktreeDirs ==
    { <<".",".","/","w","o","r","k","t","r","e","e","s">>, <<".",".","/","w","o","r","k","t","r","e","e","s","/">>, <<".","/","w","t">>, <<"w","t">>, <<"w","t","/","/">>, <<"/","a","b","s">>, <<"/","a","b","s","/">>, <<"/","a","/",".",".","/","b">>, <<".",".","/",".",".">>, <<".">>, <<>> }

WorktreeNames == {<<"f","e","a","t","u","r","e","-","x">>, <<"a">>}

\* resolveWorktreePath(worktreeDir, name) is called on a manager constructed
\* with the working directory cwd.
ResolveWorktreePath ==
    /\ FnIdle
    /\ \E cwd \in WorkingDirs, worktreeDir \in WorktreeDirs, name \in WorktreeNames :
          fnCall' = Applied("resolveWorktreePath", <<cwd, worktreeDir, name>>,
                            resolveWorktreePathIn(cwd, worktreeDir, name))
    /\ UNCHANGED <<cfgVars, cmdVars>>

\* The block a `worktree <path>` line starts, keeping the fields read so far.
StartBlockKeeping(current, line) == Spread(current, [path |-> Drop(line, 9)])

\* currentWorktree = { path: line.substring(9) }
StartBlock(current, line) == [path |-> Drop(line, 9)]

\* if (currentWorktree.path): the path is there and not the empty string.
HasPath(current) == "path" \in DOMAIN current /\ current["path"] # <<>>

\* The loop of listWorktrees over the lines and the push after it.
RECURSIVE ParseLines(_, _, _)
ParseLines(lines, worktrees, currentWorktree) ==
    IF lines = <<>>
    THEN IF HasPath(currentWorktree) THEN Append(worktrees, currentWorktree) ELSE worktrees
    ELSE LET line == Head(lines)
             Set(k, v) == Spread(currentWorktree, [f \in {k} |-> v])
         IN  IF StartsWith(line, <<"w","o","r","k","t","r","e","e"," ">>)
             THEN ParseLines(Tail(lines),
                             IF HasPath(currentWorktree)
                             THEN Append(worktrees, currentWorktree) ELSE worktrees,
                             StartBlock(currentWorktree, line))
             ELSE IF StartsWith(line, <<"H","E","A","D"," ">>)
             THEN ParseLines(Tail(lines), worktrees, Set("commit", Drop(line, 5)))
             ELSE IF StartsWith(line, <<"b","r","a","n","c","h"," ">>)
             THEN ParseLines(Tail(lines), worktrees, Set("branch", Drop(line, 7)))
             ELSE IF line = <<"b","a","r","e">>
             THEN ParseLines(Tail(lines), worktrees, Set("bare", <<"#true">>))
             ELSE IF line = <<"d","e","t","a","c","h","e","d">>
             THEN ParseLines(Tail(lines), worktrees, Set("detached", <<"#true">>))
             ELSE ParseLines(Tail(lines), worktrees, currentWorktree)

\* listWorktrees on the output of `git worktree list --porcelain` that exited
\* with exit: the records parsed, or the GitError thrown.
listWorktrees(exit, output) ==
    IF runOrThrowThrows(exit)
    THEN [ok |-> FALSE, worktrees |-> <<>>, error |-> "GitError"]
    ELSE [ok |-> TRUE, worktrees |-> ParseLines(Split(Trim(output), Newline), <<>>, EmptyObject),
          error |-> "none"]

\* The lines of a porcelain listing: markers of two paths and of no path, two
\* commits, a branch, the two flags, the blank line between blocks and a line
\* the parser does not know.
PorcelainLines ==
    { <<"w","o","r","k","t","r","e","e"," ","/","a">>, <<"w","o","r","k","t","r","e","e"," ","/","b">>, <<"w","o","r","k","t","r","e","e"," ">>, <<"H","E","A","D"," ","c","1">>, <<"H","E","A","D"," ","c","2">>, <<"b","r","a","n","c","h"," ","m">>, <<"b","a","r","e">>, <<"d","e","t","a","c","h","e","d">>, <<>>, <<"l","o","c","k","e","d">> }

MaxLines == 4

RECURSIVE ListingsOf(_)
ListingsOf(n) ==
    IF n = 0 THEN {<<>>}
    ELSE LET shorter == ListingsOf(n - 1)
         IN  shorter \cup {Append(l, x) : l \in {m \in shorter : Len(m) = n - 1},
                                          x \in PorcelainLines}

\* The outputs: each line ended by a newline.
RECURSIVE Unlines(_)
Unlines(lines) ==
    IF lines = <<>> THEN <<>> ELSE Head(lines) \o <<Newline>> \o Unlines(Tail(lines))

PorcelainOutputs == {Unlines(l) : l \in ListingsOf(MaxLines)}

\* listWorktrees() is called and git prints a listing or fails.
ListPorcelain ==
    /\ FnIdle
    /\ \E exit \in {0, 1}, output \in PorcelainOutputs :
          fnCall' = Applied("listWorktrees", <<exit, output>>, listWorktrees(exit, output))
    /\ UNCHANGED <<cfgVars, cmdVars>>

\* What a call gave its caller: the boolean returned, or the error thrown.
Returned(value) == [threw |-> "none", value |-> value]

Thrown(error) == [threw |-> error, value |-> FALSE]

\* branchExists: `git show-ref --verify --quiet refs/heads/<branch>` through
\* runOrThrow, inside try/catch.
branchExists(exit) == Returned(~runOrThrowThrows(exit))

\* remoteBranchExists: the same for refs/remotes/<remote>/<branch>.
remoteBranchExists(exit) == Returned(~runOrThrowThrows(exit))

\* worktreeExists(path) as a whole: listWorktrees() is awaited outside any
\* try/catch, so its GitError is the caller's; otherwise the comparison.
worktreeExistsIn(exit, output, path) ==
    LET listed == listWorktrees(exit, output)
    IN  IF ~listed.ok THEN Thrown(listed.error)
        ELSE Returned(worktreeExists(listed.worktrees, path))

\* mergeRequestExists: getMergeRequest throws when glab is not available, when
\* `glab mr view` exits non-zero and when its output is not JSON; every throw
\* is caught and answered false.
mergeRequestExists(whichExit, viewExit, json) ==
    Returned(exists(whichExit) /\ ~runOrThrowThrows(viewExit) /\ json)

\* pullRequestExists: the same with gh.
pullRequestExists(whichExit, viewExit, json) ==
    Returned(exists(whichExit) /\ ~runOrThrowThrows(viewExit) /\ json)

\* The listings and paths given to worktreeExists.
CheckedOutputs == {<<>>, Unlines(<<<<"w","o","r","k","t","r","e","e"," ","/","a">>, <<"H","E","A","D"," ","c","1">>>>)}

CheckedPaths == {<<"/","a">>, <<"/","c">>, <<"/","a","/">>, <<"/","c","/",".",".","/","a">>, <<".",".","/","a">>, <<".",".","/",".","/","a","/">>}

\* One of the existence checks is called, its command exiting with exit.
ExistenceCheck ==
    /\ FnIdle
    /\ \E exit \in {0, 1} :
          \/ fnCall' = Applied("branchExists", <<exit>>, branchExists(exit))
          \/ fnCall' = Applied("remoteBranchExists", <<exit>>, remoteBranchExists(exit))
          \/ \E output \in CheckedOutputs, path \in CheckedPaths :
                fnCall' = Applied("worktreeExists", <<exit, output, path>>,
                                  worktreeExistsIn(exit, output, path))
          \/ \E whichExit \in {0, 1}, json \in BOOLEAN :
                \/ fnCall' = Applied("mergeRequestExists", <<exit, whichExit, json>>,
                                     mergeRequestExists(whichExit, exit, json))
                \/ fnCall' = Applied("pullRequestExists", <<exit, whichExit, json>>,
                                     pullRequestExists(whichExit, exit, json))
    /\ UNCHANGED <<cfgVars, cmdVars>>

\* createWorktree(path, branchName, {createBranch, force, checkout}) is called
\* and git exits with exit: the arguments given to git, and the error thrown.
CreateWorktreeWith ==
    /\ FnIdle
    /\ \E createBranch \in BOOLEAN, force \in BOOLEAN, checkout \in BOOLEAN, exit \in {0, 1},
          path \in {<<"/","w","/","a">>, <<"/","w","/","b">>}, branchName \in {<<"f","/","a">>, <<"b">>} :
          fnCall' = Applied("createWorktree",
                            <<path, branchName, createBranch, force, checkout, exit>>,
                            [git |-> createWorktreeArgs(path, branchName, createBranch,
                                                        force, checkout),
                             threw |-> IF runOrThrowThrows(exit) THEN "GitError" ELSE "none"])
    /\ UNCHANGED <<cfgVars, cmdVars>>

\* isGlabAvailable / isGhAvailable, or isGitLabProject / isGitHubProject, is
\* called: `which` exits 0 when the program is installed, and a program that
\* is not installed cannot be run successfully.
HostingCheck ==
    /\ FnIdle
    /\ \E cli \in {"glab", "gh"}, whichExit \in {0, 1} :
          \/ fnCall' = Applied("isAvailable", <<cli, whichExit>>, exists(whichExit))
          \/ \E viewExit \in IF whichExit = 0 THEN {0, 1} ELSE {1} :
                fnCall' = Applied("isProject", <<cli, whichExit, viewExit>>,
                                  isProject(cli, whichExit, viewExit))
    /\ UNCHANGED <<cfgVars, cmdVars>>

\* The worktrees listed for findWorktreeByName, and the names looked for.
FoundWorktrees ==
    { Worktree(<<"/","w","/","f","-","a">>, <<"b">>), Worktree(<<"/","w","/","k","w","t","-","f","-","a">>, <<"b">>),
      Worktree(<<"/","x","/","w","/","f","-","a">>, <<"b">>), Worktree(<<"C",":","\\","w","\\","f","-","a">>, <<"b">>) }

FoundListings ==
    {<<MainWorktree>>} \cup {<<MainWorktree, w>> : w \in FoundWorktrees}
        \cup {<<MainWorktree, v, w>> : v \in FoundWorktrees, w \in FoundWorktrees}

FoundNames == {<<"f","-","a">>, <<"a">>, <<"w","/","f","-","a">>, <<"k","w","t","-","f","-","a">>, <<"z","z">>}

\* findWorktreeByName(name) is called: the worktrees are listed, which throws
\* GitError when git fails, and searched.
FindByName ==
    /\ FnIdle
    /\ \E exit \in {0, 1}, worktrees \in FoundListings, name \in FoundNames :
          fnCall' = Applied("findWorktreeByName", <<exit, worktrees, name>>,
                            IF runOrThrowThrows(exit)
                            THEN [threw |-> "GitError", found |-> NoWorktree]
                            ELSE [threw |-> "none",
                                  found |-> findWorktreeByName(worktrees, name)])
    /\ UNCHANGED <<cfgVars, cmdVars>>

FnInit ==
    /\ CfgIdle
    /\ CmdIdle
    /\ FnIdle

FnNext ==
    \/ ExtractRepoName
    \/ GenerateWorktreeName
    \/ ResolveWorktreePath
    \/ ListPorcelain
    \/ ExistenceCheck
    \/ CreateWorktreeWith
    \/ HostingCheck
    \/ FindByName

SpecFn == FnInit /\ [][FnNext]_vars

(***************************************************************************)
(* Properties of the configuration store (checked under SpecCfg)           *)
(***************************************************************************)
\* Reading property k of a JavaScript object: undefined when it has no such key.
Get(obj, k) == IF k \in DOMAIN obj THEN obj[k] ELSE Undefined

ValidFile(file) == file # Absent /\ SchemaValid(file)

InvalidFile(file) == file # Absent /\ ~SchemaValid(file)

\* The file exists, validates and defines key k.
Defines(file, k) == ValidFile(file) /\ Has(file, k)

\* loadConfig has just read both files (its first call on this manager).
JustRead == cfgCall.op = "loadConfig" /\ ~cfgCall.cached

\* C7: whenever the local configuration has a non-empty postCommands list, the
\* merged configuration's postCommands is exactly that list, whatever global
\* holds; and a loadConfig that reads a local file with such a list returns it.
C7_PostCommandsReplaced ==
    /\ (mergedConfig # Null /\ localConfig # Null /\ Len(localConfig["postCommands"]) > 0)
          => mergedConfig["postCommands"] = localConfig["postCommands"]
    /\ (JustRead /\ Defines(localFile, "postCommands")
            /\ Len(localFile["postCommands"]) > 0)
          => cfgCall.value["postCommands"] = localFile["postCommands"]

\* C7 witness: a read where global and local both list post-commands, and the
\* result carries local's list only.
C7_Witness ==
    /\ JustRead
    /\ Defines(globalFile, "postCommands") /\ globalFile["postCommands"] = <<G2, G1>>
    /\ Defines(localFile, "postCommands") /\ localFile["postCommands"] = <<G1>>
    /\ cfgCall.value["postCommands"] = <<G1>>

\* The value the layering default -> global -> local gives key k.
Layered(k) ==
    IF Defines(localFile, k) THEN localFile[k]
    ELSE IF Defines(globalFile, k) THEN globalFile[k]
    ELSE Get(defaultConfig, k)

\* C8 (as claimed): for valid or missing files, each scalar field returned by a
\* loadConfig that reads them is local's if local defines it, else global's if
\* global defines it, else the default.
C8_ScalarLayering ==
    (JustRead /\ ~InvalidFile(globalFile) /\ ~InvalidFile(localFile)) =>
        \A k \in {"prefixType", "manualPrefix", "worktreeDir"} :
            Get(cfgCall.value, k) = Layered(k)

\* C9: with no local file, loadConfig returns global's fields over the defaults:
\* each key global defines has global's value, each other key its default, and
\* with neither file it returns exactly the default configuration.
C9_GlobalOverDefaults ==
    (cfgCall.op = "loadConfig" /\ localFile = Absent) =>
        /\ cfgCall.outcome = "ok"
        /\ \A k \in {"prefixType", "manualPrefix", "worktreeDir", "postCommands"} :
              Get(cfgCall.value, k) =
                  IF Defines(globalFile, k) THEN globalFile[k] ELSE Get(defaultConfig, k)
        /\ globalFile = Absent =>
              cfgCall.value =
                  [prefixType |-> "none", worktreeDir |-> DefaultWorktreeDir,
                   postCommands |-> <<>>]

\* C9 witness: no local file, a global file that sets some keys, loaded.
C9_Witness ==
    /\ JustRead
    /\ localFile = Absent
    /\ globalFile = [prefixType |-> "detect", postCommands |-> <<G1>>]
    /\ cfgCall.value["prefixType"] = "detect"
    /\ cfgCall.value["worktreeDir"] = DefaultWorktreeDir

\* C10 (as claimed): a loadConfig that reads a present file whose content does
\* not validate fails with ConfigError.
C10_InvalidFileRaises ==
    (JustRead /\ (InvalidFile(globalFile) \/ InvalidFile(localFile)))
        => cfgCall.outcome = "ConfigError"

\* What is left of a file for loadConfig: an invalid file counts as missing.
Usable(file) == IF InvalidFile(file) THEN Absent ELSE file

\* C10 (amended): loadConfig never fails; a present file that does not validate
\* is ignored and contributes exactly what a missing file does, the defaults.
C10_InvalidFileIgnored ==
    /\ cfgCall.op = "loadConfig" => cfgCall.outcome = "ok"
    /\ JustRead =>
          /\ InvalidFile(globalFile) => globalConfig = Null
          /\ InvalidFile(localFile) => localConfig = Null
          /\ cfgCall.value =
                mergeConfigs(loadGlobalConfig(Usable(globalFile)),
                             loadLocalConfig(Usable(localFile)))
          /\ (~ValidFile(globalFile) /\ ~ValidFile(localFile)) =>
                cfgCall.value =
                    [prefixType |-> "none", worktreeDir |-> DefaultWorktreeDir,
                     postCommands |-> <<>>]

\* C10 witness: an invalid local file beside a valid global one, read without
\* error, the result being global's.
C10_Witness ==
    /\ JustRead
    /\ cfgCall.outcome = "ok"
    /\ localFile = [prefixType |-> "bogus", worktreeDir |-> WtDir]
    /\ globalFile = [prefixType |-> "detect"]
    /\ cfgCall.value["prefixType"] = "detect"
    /\ cfgCall.value["worktreeDir"] = DefaultWorktreeDir

\* The keys of a configuration.
ConfigKeys == {"prefixType", "manualPrefix", "worktreeDir", "postCommands"}

\* cfg with the defaults filled in for the fields it omits.
WithDefaults(cfg) == Spread(defaultConfig, JsonRoundTrip(cfg))

\* A successful saveLocalConfig was followed by a loadConfig.
SavedThenLoaded ==
    cfgPrev.op = "saveLocalConfig" /\ cfgPrev.outcome = "ok" /\ cfgCall.op = "loadConfig"

\* C11 (as claimed): a loadConfig that follows a successful saveLocalConfig(cfg)
\* returns cfg with defaults filled in, field by field, whatever the global
\* configuration is.
C11_RoundTrip ==
    SavedThenLoaded =>
        \A k \in ConfigKeys : Get(cfgCall.value, k) = Get(WithDefaults(cfgPrev.arg), k)

\* C11 (amended): the same for every field but manualPrefix; when cfg has no
\* manualPrefix key and the manager holds a global configuration, the
\* manualPrefix returned is the global one.
C11_RoundTripOverGlobal ==
    SavedThenLoaded =>
        \A k \in ConfigKeys :
            Get(cfgCall.value, k) =
                IF k = "manualPrefix" /\ k \notin DOMAIN cfgPrev.arg /\ globalConfig # Null
                THEN Get(globalConfig, k)
                ELSE Get(WithDefaults(cfgPrev.arg), k)

\* C11 witness: cfg = {prefixType: detect} saved on a manager whose global
\* configuration has a manualPrefix and post-commands, then loaded: the result
\* has cfg's prefixType, the default postCommands and global's manualPrefix.
C11_Witness ==
    /\ SavedThenLoaded
    /\ cfgPrev.arg = [prefixType |-> "detect"]
    /\ globalConfig # Null /\ Has(globalConfig, "manualPrefix")
    /\ Len(globalConfig["postCommands"]) > 0
    /\ cfgCall.value["prefixType"] = "detect"
    /\ cfgCall.value["postCommands"] = <<>>
    /\ Get(cfgCall.value, "manualPrefix") = ManPrefix

\* The last call was a successful save to the local file, or to the global one.
SavedLocal == cfgCall.op = "saveLocalConfig" /\ cfgCall.outcome = "ok"

SavedGlobal == cfgCall.op = "saveGlobalConfig" /\ cfgCall.outcome = "ok"

\* C12: after a successful saveLocalConfig(partial) or saveGlobalConfig(partial)
\* the file written holds exactly partial's fields with the default for every
\* field partial omits, and no manualPrefix unless partial has one, whatever it
\* held before; so when partial is the single pair of `config --set`, every
\* other key of the file is at its default.
C12_SaveWritesFullObject ==
    LET written == IF SavedLocal THEN localFile ELSE globalFile
        partial == cfgCall.arg
    IN  (SavedLocal \/ SavedGlobal) =>
            /\ written = WithDefaults(partial)
            /\ \A key \in ConfigKeys :
                  DOMAIN partial = {key} =>
                      \A k \in ConfigKeys \ {key} :
                          Get(written, k) = Get(defaultConfig, k)

\* C12 witness: `config --set worktreeDir=./wt` on a manager whose local
\* configuration had prefixType detect and post-commands: the file now has the
\* new worktreeDir and the defaults for the rest.
C12_Witness ==
    /\ SavedLocal
    /\ cfgCall.arg = [worktreeDir |-> WtDir]
    /\ cfgPrev.op = "loadConfig"
    /\ localFile = [prefixType |-> "none", worktreeDir |-> WtDir, postCommands |-> <<>>]
    /\ globalConfig # Null /\ globalConfig["prefixType"] = "detect"

(***************************************************************************)
(* Properties of the commands (checked under SpecCmd)                      *)
(***************************************************************************)
\* The positions of the log whose entry ran program `kind` with operation `op`.
Ran(kind, op) == {i \in 1..Len(log) : log[i].kind = kind /\ log[i].op = op}

\* The same, with the given exit code.
RanWith(kind, op, exit) == {i \in Ran(kind, op) : log[i].exit = exit}

\* The post-commands run so far, in the order they ran.
PostEntries == SelectSeq(log, LAMBDA e : e.kind = "post")

\* The invocation has ended.
Ended == pc = "done"

\* The worktree listing of the guard step was obtained.
GuardRan == invocation.command # "rm" /\ RanWith("git", "worktree list", 0) # {}

\* A listed worktree has the target path.
PathListed == \E i \in 1..Len(env.worktrees) : env.worktrees[i].path = frame.worktreePath

\* The place where each command looks at the dry-run flag has been reached:
\* `new` after its branch check passed, mr and pr after the guard found no
\* worktree, rm once the worktree is found.
PlanReached ==
    \/ invocation.command = "new" /\ RanWith("git", "show-ref", 1) # {}
    \/ IsChangeRequest /\ GuardRan /\ ~PathListed
    \/ invocation.command = "rm" /\ frame.found # NoWorktree

\* C1: with --dry-run on the command line, no invocation of new, mr, pr or rm
\* ever runs a mutating step (git worktree add/remove/prune, git fetch, git
\* push, git branch -D, a post-command, a directory deletion), and once the
\* plan is reached the invocation has returned successfully.
C1_DryRunMutatesNothing ==
    invocation.dryRun =>
        /\ \A i \in 1..Len(log) : ~Mutating(log[i])
        /\ PlanReached => (Ended /\ status = "ok")

\* C1 witness: a dry-run mr whose guard passed and which returned, having
\* queried the hosting CLI and listed the worktrees, and a configuration with
\* post-commands that were not run.
C1_Witness ==
    /\ invocation.dryRun
    /\ invocation.command = "mr"
    /\ PlanReached
    /\ Ended /\ status = "ok"
    /\ Len(frame.config["postCommands"]) > 0
    /\ Ran("glab", "mr view") # {}

\* Nothing was fetched, no worktree created and no post-command run.
NothingCreated ==
    /\ Ran("git", "fetch") = {}
    /\ Ran("git", "worktree add") = {}
    /\ PostEntries = <<>>

\* C2: the guard step. `new` ends with an error, having created nothing, when
\* a listed worktree has the target path or the chosen branch exists locally;
\* mr and pr, when a listed worktree has the target path, end with 'Worktree
\* already exists' unless --checkout was given, and then end successfully; in
\* both cases nothing is fetched or created and no post-command is run.
C2_GuardStep ==
    /\ (invocation.command = "new" /\ GuardRan /\ PathListed) =>
          (Ended /\ status = "Worktree already exists" /\ NothingCreated)
    /\ (invocation.command = "new" /\ RanWith("git", "show-ref", 0) # {}) =>
          (Ended /\ status = "Branch already exists" /\ NothingCreated)
    /\ (IsChangeRequest /\ GuardRan /\ PathListed) =>
          /\ Ended
          /\ NothingCreated
          /\ status = IF invocation.checkout THEN "ok" ELSE "Worktree already exists"

\* C2 witness: a pr with --checkout, not a dry run, whose target path is
\* listed: it returned successfully.
C2_Witness ==
    /\ invocation.command = "pr"
    /\ invocation.checkout /\ ~invocation.dryRun
    /\ GuardRan /\ PathListed
    /\ Ended /\ status = "ok"

\* The configured post-commands in the order of the configuration: group by
\* group, each group's commands as listed, empty commands left out.
RECURSIVE Configured(_, _, _)
Configured(groups, gi, ci) ==
    IF gi > Len(groups) THEN <<>>
    ELSE IF ci > Len(groups[gi].commands) THEN Configured(groups, gi + 1, 1)
    ELSE LET parts == SplitWs(Trim(groups[gi].commands[ci]))
         IN  (IF parts[1] = <<>> THEN <<>>
              ELSE <<[op |-> groups[gi].label, args |-> parts]>>)
             \o Configured(groups, gi, ci + 1)

\* C3: the post-commands that have run are the first ones of the configured
\* order, one after the other; all but the last exited with 0; one that exits
\* non-zero is the last thing the invocation runs (no later command, no later
\* group, no push) and the invocation ends with an error; and a command that
\* ends successfully after creating the worktree has run them all.
C3_PostCommandsInOrder ==
    LET posts == PostEntries
        n == Len(posts)
        expected == Configured(frame.config["postCommands"], 1, 1)
    IN  /\ n > 0 =>
              /\ n <= Len(expected)
              /\ \A k \in 1..n :
                    posts[k].op = expected[k].op /\ posts[k].args = expected[k].args
              /\ \A k \in 1..(n - 1) : posts[k].exit = 0
              /\ posts[n].exit # 0 =>
                    /\ log[Len(log)] = posts[n]
                    /\ Ended
                    /\ status = "EXEC_ERROR"
        /\ (RanWith("git", "worktree add", 0) # {} /\ (status = "ok" \/ pc = "push")) =>
              (n = Len(expected) /\ \A k \in 1..n : posts[k].exit = 0)

\* C3 witness: a `new` whose first group ran both its commands and whose
\* second group's command failed: it is the last entry, and nothing was pushed.
C3_Witness ==
    /\ invocation.command = "new"
    /\ Len(PostEntries) = 3
    /\ PostEntries[1].op = "build" /\ PostEntries[2].op = "build"
    /\ PostEntries[3].op = "install" /\ PostEntries[3].exit = 1
    /\ status = "EXEC_ERROR"
    /\ Ran("git", "push") = {}

\* C4 (as claimed): a `new` given --no-push on the command line runs no
\* `git push`.
C4_NoPushSkipsPush ==
    (invocation.command = "new" /\ invocation.noPush) => Ran("git", "push") = {}

\* Entry i comes before entry j.
Before(I, J) == \E i \in I : \E j \in J : i < j

\* C5: in rm without --force, `git worktree remove` runs only after the first
\* prompt was answered yes, a declined first prompt ends the invocation
\* successfully with no removal, and the branch is deleted locally or remotely
\* only after a successful removal and a second prompt answered yes; with
\* --force no prompt is issued, the removal is run with --force, and no branch
\* is deleted.
C5_RemoveNeedsConsent ==
    invocation.command = "rm" =>
        LET removals == Ran("git", "worktree remove")
            deletions == Ran("git", "branch -D") \cup Ran("git", "push")
            prompts == Ran("prompt", "confirmed") \cup Ran("prompt", "deleteBranch")
        IN  /\ ~invocation.force =>
                  /\ \A r \in removals : Before(RanWith("prompt", "confirmed", 0), {r})
                  /\ RanWith("prompt", "confirmed", 1) # {} =>
                        (Ended /\ status = "ok" /\ removals = {}
                            /\ \A i \in 1..Len(log) : ~Mutating(log[i]))
                  /\ \A d \in deletions :
                        /\ Before(RanWith("git", "worktree remove", 0), {d})
                        /\ Before(RanWith("prompt", "deleteBranch", 0), {d})
                        /\ Before(RanWith("git", "worktree remove", 0),
                                  RanWith("prompt", "deleteBranch", 0))
            /\ invocation.force =>
                  /\ prompts = {}
                  /\ deletions = {}
                  /\ (Ended /\ ~invocation.dryRun /\ frame.found # NoWorktree) =>
                        \E r \in removals :
                            log[r].args = <<<<"-","-","f","o","r","c","e">>, frame.found.path>>

\* C5 witness: an rm without --force where both prompts were answered yes: the
\* worktree was removed and then its branch deleted locally and remotely.
C5_Witness ==
    /\ invocation.command = "rm"
    /\ ~invocation.force
    /\ RanWith("prompt", "confirmed", 0) # {}
    /\ RanWith("prompt", "deleteBranch", 0) # {}
    /\ RanWith("git", "branch -D", 0) # {}
    /\ Ran("git", "push") # {}
    /\ Ended /\ status = "ok"

\* C6: the first command any invocation runs is `git rev-parse --git-dir`, and
\* when it exits non-zero the invocation ends with 'Not in a git repository'
\* having run nothing else.
C6_NotInRepository ==
    /\ log # <<>> => (log[1].kind = "git" /\ log[1].op = "rev-parse")
    /\ RanWith("git", "rev-parse", 1) # {} =>
          /\ Len(log) = 1
          /\ Ended
          /\ status = "Not in a git repository"

\* C6 witness: an mr with a valid number, run outside a repository with the
\* hosting CLI installed, ended with the error.
C6_Witness ==
    /\ invocation.command = "mr"
    /\ invocation.arg = <<"7">>
    /\ env.installed
    /\ RanWith("git", "rev-parse", 1) # {}
    /\ status = "Not in a git repository"

\* The worktree name has been generated.
NameGenerated == frame.worktreePath # <<>>

\* The remotes listed that are named origin and have type fetch.
OriginFetch == {i \in 1..Len(frame.remotes) :
                   frame.remotes[i].name = "origin" /\ frame.remotes[i].type = "fetch"}

\* The base name of each command: the name given to new and rm, the name
\* derived from the change request for mr and pr.
BaseName == IF IsChangeRequest THEN frame.baseName ELSE invocation.arg

\* C15: once generated, the worktree name is prefix + baseName, the prefix
\* being empty for prefixType none, manualPrefix (empty if unset) for manual and
\* extractRepoName(url of the origin fetch remote) + "-" for detect; and with
\* detect, a listing with no origin fetch remote ends the command with
\* GitError, no name generated.
C15_PrefixedName ==
    LET prefixType == frame.config["prefixType"]
        manualPrefix == Get(frame.config, "manualPrefix")
    IN  /\ (NameGenerated /\ prefixType = "none") =>
              frame.worktreeName = BaseName
        /\ (NameGenerated /\ prefixType = "manual") =>
              frame.worktreeName =
                  (IF manualPrefix = Undefined THEN <<>> ELSE manualPrefix) \o BaseName
        /\ (NameGenerated /\ prefixType = "detect") =>
              \E i \in OriginFetch :
                  frame.worktreeName =
                      extractRepoName(frame.remotes[i].url).name \o <<"-">> \o BaseName
        /\ (RanWith("git", "remote", 0) # {} /\ OriginFetch = {}) =>
              (Ended /\ status = "GitError" /\ ~NameGenerated)

\* C15 witness: an rm under prefixType detect where origin is listed second,
\* after another remote: the name is kwt-a.
C15_Witness ==
    /\ invocation.command = "rm"
    /\ invocation.arg = <<"a">>
    /\ frame.worktreeName = <<"k","w","t","-","a">>
    /\ frame.remotes = <<UpstreamRemote("fetch"), OriginRemote("fetch")>>
    /\ frame.config["prefixType"] = "detect"

(***************************************************************************)
(* Properties of the stateless functions (checked under SpecFn)            *)
(***************************************************************************)
\* The function just called, and with these arguments.
Called(fn) == fnCall.fn = fn

CalledWith(fn, args) == fnCall.fn = fn /\ fnCall.args = args

\* C13 (as claimed): for every URL user@host:[group/]name[.git] and every URL
\* scheme://host/[group/]name[.git][/], extractRepoName returns name, the final
\* path segment without its .git, and the result contains no '/'.
C13_FinalSegment ==
    Called("extractRepoName") =>
        /\ \A user \in UrlUsers, group \in UrlGroups, name \in UrlNames,
                suffix \in UrlSuffixes :
                fnCall.args = <<SshUrl(user, group, name, suffix)>> =>
                    (fnCall.result.ok /\ fnCall.result.name = name)
        /\ \A scheme \in UrlSchemes, group \in UrlGroups, name \in UrlNames,
                suffix \in UrlSuffixes, slash \in {<<>>, <<Sep>>} :
                fnCall.args = <<HttpUrl(scheme, group, name, suffix, slash)>> =>
                    (fnCall.result.ok /\ fnCall.result.name = name)
        /\ fnCall.args[1] \in SshUrls \cup HttpUrls \cup NestedUrls =>
                \A i \in 1..Len(fnCall.result.name) : fnCall.result.name[i] # Sep

\* C14 (as claimed): for every URL of neither style, and every URL of the two
\* styles with no name, extractRepoName throws GitError and returns no name.
C14_NoNameIsGitError ==
    (Called("extractRepoName") /\ fnCall.args[1] \in ForeignUrls \cup NamelessUrls) =>
        (~fnCall.result.ok /\ fnCall.result.name = <<>>)

\* s with each character outside [A-Za-z0-9_-] replaced by '-', runs of '-'
\* collapsed and leading and trailing '-' stripped: the stretches of s between
\* dashes and replaced characters, joined by single dashes.
Dashed(s) ==
    LET replaced == [i \in 1..Len(s) |-> IF s[i] \in NameChars THEN s[i] ELSE "-"]
    IN  JoinWith(SelectSeq(Split(replaced, "-"), LAMBDA piece : piece # <<>>), "-")

\* C16: for every source branch s and id n both generateWorktreeName variants
\* return Dashed(s) when it has at least 2 characters and otherwise mr-n
\* (GitLab) or pr-n (GitHub); the documented branch gives feature-ABC-123_fix
\* and "!" the fallback; every result has at least 2 characters, all of them
\* in [A-Za-z0-9_-], no "--", and no '-' at either end.
C16_DerivedName ==
    (Called("GitLabManager.generateWorktreeName")
        \/ Called("GitHubManager.generateWorktreeName")) =>
        LET s == fnCall.args[1]
            n == fnCall.args[2]
            r == fnCall.result
            fallback == (IF Called("GitLabManager.generateWorktreeName")
                         THEN <<"m", "r", "-">> ELSE <<"p", "r", "-">>) \o toString(n)
        IN  /\ r = IF Len(Dashed(s)) >= 2 THEN Dashed(s) ELSE fallback
            /\ s = DocumentedBranch => r = <<"f","e","a","t","u","r","e","-","A","B","C","-","1","2","3","_","f","i","x">>
            /\ s = <<"!">> => r = fallback
            /\ Len(r) >= 2
            /\ \A i \in 1..Len(r) : r[i] \in NameChars
            /\ \A i \in 1..(Len(r) - 1) : ~(r[i] = "-" /\ r[i + 1] = "-")
            /\ r[1] # "-" /\ r[Len(r)] # "-"

\* C16 witness: the GitHub variant on a branch with a run of two replaced
\* characters in the middle, which becomes one dash.
C16_Witness ==
    /\ CalledWith("GitHubManager.generateWorktreeName", <<<<"a","/","!","B">>, 12>>)
    /\ fnCall.result = <<"a","-","B">>

\* The segments of path p that remain after normalisation: empty and "."
\* segments dropped, each ".." removing the segment before it, if any.
RECURSIVE Segments(_, _)
Segments(parts, kept) ==
    IF parts = <<>> THEN kept
    ELSE IF Head(parts) \in {<<>>, <<".">>} THEN Segments(Tail(parts), kept)
    ELSE IF Head(parts) = <<".", ".">>
    THEN Segments(Tail(parts), SubSeq(kept, 1, Len(kept) - 1))
    ELSE Segments(Tail(parts), Append(kept, Head(parts)))

\* The absolute path p in normalised form.
Normalised(p) == <<Sep>> \o JoinWith(Segments(Split(p, Sep), <<>>), Sep)

\* p with trailing slashes added.
Slashed(p) == {p \o <<Sep>>, p \o <<Sep, Sep>>}

\* What is stated of a call of resolveWorktreePath, the statement about
\* trailing slashes on worktreeDir being made of the directories in dirs.
ResolvedPath(dirs) ==
    Called("resolveWorktreePath") =>
        LET cwd == fnCall.args[1]
            worktreeDir == fnCall.args[2]
            name == fnCall.args[3]
            r == fnCall.result
        IN  /\ log = <<>>
            /\ r = IF worktreeDir # <<>> /\ worktreeDir[1] = Sep
                   THEN Normalised(worktreeDir \o <<Sep>> \o name)
                   ELSE Normalised(cwd \o <<Sep>> \o worktreeDir \o <<Sep>> \o name)
            /\ (cwd = <<"/","r","e","p","o">> /\ worktreeDir = <<".",".","/","w","o","r","k","t","r","e","e","s">> /\ name = <<"f","e","a","t","u","r","e","-","x">>) => r = <<"/","w","o","r","k","t","r","e","e","s","/","f","e","a","t","u","r","e","-","x">>
            /\ \A d \in Slashed(worktreeDir), c \in Slashed(cwd) :
                  /\ worktreeDir \in dirs => resolveWorktreePathIn(cwd, d, name) = r
                  /\ resolveWorktreePathIn(c, worktreeDir, name) = r

LinesOf(output) == Split(output, Newline)

\* The positions of the `worktree <path>` lines, in order.
IsMarker(line) == Len(line) > 9 /\ SubSeq(line, 1, 9) = <<"w","o","r","k","t","r","e","e"," ">>

RECURSIVE MarkersFrom(_, _)
MarkersFrom(lines, i) ==
    IF i > Len(lines) THEN <<>>
    ELSE (IF IsMarker(lines[i]) THEN <<i>> ELSE <<>>) \o MarkersFrom(lines, i + 1)

Markers(lines) == MarkersFrom(lines, 1)

\* The positions of the lines of the k-th block: after its marker and before
\* the next marker or the end.
Block(lines, k) ==
    LET m == Markers(lines)
    IN  (m[k] + 1) .. (IF k < Len(m) THEN m[k + 1] - 1 ELSE Len(lines))

\* Whether line gives field f the value v.
Gives(line, f, v) ==
    CASE f = "commit" -> Len(line) >= 5 /\ SubSeq(line, 1, 5) = <<"H","E","A","D"," ">> /\ v = SubSeq(line, 6, Len(line))
      [] f = "branch" -> Len(line) >= 7 /\ SubSeq(line, 1, 7) = <<"b","r","a","n","c","h"," ">> /\ v = SubSeq(line, 8, Len(line))
      [] f = "bare" -> line = <<"b","a","r","e">> /\ v = <<"#true">>
      [] f = "detached" -> line = <<"d","e","t","a","c","h","e","d">> /\ v = <<"#true">>
      [] OTHER -> FALSE

\* C18: for every listing git prints, listWorktrees returns one record per
\* `worktree <path>` line, in the order of the lines and with that line's
\* path, and every commit, branch, bare or detached field of a record is given
\* by a line of the record's own block: after its marker and before the next
\* marker or the end.
C18_OneRecordPerBlock ==
    (Called("listWorktrees") /\ fnCall.result.ok) =>
        LET lines == LinesOf(fnCall.args[2])
            m == Markers(lines)
            w == fnCall.result.worktrees
        IN  /\ Len(w) = Len(m)
            /\ \A k \in 1..Len(w) :
                  /\ w[k]["path"] = SubSeq(lines[m[k]], 10, Len(lines[m[k]]))
                  /\ DOMAIN w[k] \subseteq {"path", "commit", "branch", "bare", "detached"}
                  /\ \A f \in DOMAIN w[k] \ {"path"} :
                        \E i \in Block(lines, k) : Gives(lines[i], f, w[k][f])

\* C18 witness: two consecutive blocks, the first with a commit and a branch
\* and the second with neither, give two records, the second with its path only.
C18_Witness ==
    /\ CalledWith("listWorktrees", <<0, Unlines(<<<<"w","o","r","k","t","r","e","e"," ","/","a">>, <<"H","E","A","D"," ","c","1">>, <<"b","r","a","n","c","h"," ","m">>, <<"w","o","r","k","t","r","e","e"," ","/","b">>>>)>>)
    /\ fnCall.result.worktrees =
         << [path |-> <<"/","a">>, commit |-> <<"c","1">>, branch |-> <<"m">>], [path |-> <<"/","b">>] >>

(***************************************************************************)
(* removeWorktree, under SpecCmd                                           *)
(***************************************************************************)
\* The steps of the fallback that failed: the deletion or the prune.
FallbackFailures == RanWith("fs", "rmSync", 1) \cup RanWith("git", "worktree prune", 1)

\* C19 (as claimed): whenever `git worktree remove` exits non-zero the call
\* ends with a GitError; the directory is deleted and the worktrees pruned only
\* after such a failure, with force and with the path found on disk, and then
\* they are attempted, the prune after the deletion; a failed deletion or a
\* failed prune records a warning; without force nothing is deleted by hand
\* and prune is not run.
C19_FallbackOnlyWithForce ==
    LET failed == RanWith("git", "worktree remove", 1)
        fallback == Ran("fs", "rmSync") \cup Ran("git", "worktree prune")
    IN  /\ fallback # {} => failed # {}
        /\ failed # {} =>
              /\ Ended /\ status = "GitError"
              /\ fallback # {} =>
                    invocation.force /\ Before(failed, RanWith("fs", "existsSync", 0))
              /\ (invocation.force /\ RanWith("fs", "existsSync", 0) # {}) =>
                    Before(failed, Ran("fs", "rmSync"))
              /\ \A p \in Ran("git", "worktree prune") : Before(RanWith("fs", "rmSync", 0), {p})
              /\ FallbackFailures # {} =>
                    Before(FallbackFailures, Ran("warn", "Manual cleanup also failed"))
              /\ ~invocation.force => fallback = {}

(***************************************************************************)
(* The existence checks, under SpecFn                                      *)
(***************************************************************************)
ExistenceChecks ==
    {"branchExists", "remoteBranchExists", "worktreeExists",
     "mergeRequestExists", "pullRequestExists"}

\* C20 (as claimed): branchExists, remoteBranchExists, worktreeExists,
\* mergeRequestExists and pullRequestExists return a boolean whatever their
\* command's exit code, false when the command of a branch or change-request
\* check exits non-zero, and never raise an error to the caller.
C20_ChecksNeverRaise ==
    fnCall.fn \in ExistenceChecks =>
        /\ fnCall.result.threw = "none"
        /\ fnCall.result.value \in BOOLEAN
        /\ (fnCall.fn # "worktreeExists" /\ fnCall.args[1] # 0) => ~fnCall.result.value

(***************************************************************************)
(* The number given to mr and pr, under SpecCmd                            *)
(***************************************************************************)
\* s is the decimal text of a positive integer: digits only, not all zero.
PositiveDecimal(s) ==
    /\ s # <<>>
    /\ \A i \in 1..Len(s) : s[i] \in {"0", "1", "2", "3", "4", "5", "6", "7", "8", "9"}
    /\ \E i \in 1..Len(s) : s[i] # "0"

\* The entries of the hosting CLI: `which`, glab and gh.
HostingEntries == {i \in 1..Len(log) : log[i].kind \in {"which", "glab", "gh"}}

\* C21 (as claimed): in a repository, mr and pr given an argument that is not
\* the decimal text of a positive integer end with the invalid-number error,
\* and no command of the hosting CLI is run for such an argument.
C21_InvalidNumberRejected ==
    (invocation.command \in {"mr", "pr"} /\ ~PositiveDecimal(invocation.arg)) =>
        /\ HostingEntries = {}
        /\ RanWith("git", "rev-parse", 0) # {} => (Ended /\ status = "Invalid number")

(***************************************************************************)
(* The configuration cache, under SpecCfg                                  *)
(***************************************************************************)
\* The cached configuration is the one saved: the input with the defaults
\* filled in, field by field.
IsSaved(cached, config) ==
    cached # Null /\ \A k \in ConfigKeys : Get(cached, k) = Get(WithDefaults(config), k)

\* The call made in this step was a save, to either file.
Saving == cfgCall'.op \in {"saveLocalConfig", "saveGlobalConfig"}

\* C22: on one ConfigManager a loadConfig that finds a cached merge returns it
\* and reads and changes nothing, a merge once cached stays cached, so the
\* files are read by the first call only; a successful saveLocalConfig or
\* saveGlobalConfig makes the saved configuration the cached local or global
\* one, leaves the other and recomputes the cached merge from the two; a save
\* whose input does not validate or whose write fails raises ConfigError and
\* leaves the cached local, global and merged configurations as they were.
C22_CacheDiscipline ==
    [][ /\ mergedConfig # Null => mergedConfig' # Null
        /\ cfgCall'.op = "loadConfig" =>
              /\ mergedConfig' # Null
              /\ cfgCall'.cached = (mergedConfig # Null)
              /\ cfgCall'.cached =>
                    /\ cfgCall'.value = mergedConfig
                    /\ UNCHANGED <<globalConfig, localConfig, mergedConfig>>
        /\ (cfgCall'.op = "saveLocalConfig" /\ cfgCall'.outcome = "ok") =>
              /\ IsSaved(localConfig', cfgCall'.arg)
              /\ globalConfig' = globalConfig
              /\ mergedConfig' = mergeConfigs(globalConfig', localConfig')
        /\ (cfgCall'.op = "saveGlobalConfig" /\ cfgCall'.outcome = "ok") =>
              /\ IsSaved(globalConfig', cfgCall'.arg)
              /\ localConfig' = localConfig
              /\ mergedConfig' = mergeConfigs(globalConfig', localConfig')
        /\ Saving =>
              /\ ~SchemaValid(cfgCall'.arg) => cfgCall'.outcome = "ConfigError"
              /\ cfgCall'.outcome # "ok" =>
                    /\ cfgCall'.outcome = "ConfigError"
                    /\ UNCHANGED <<globalConfig, localConfig, mergedConfig>>
      ]_vars

\* C22 witness: a loadConfig answered from the cache right after a save that
\* failed, on a manager that holds both a local and a global configuration.
C22_Witness ==
    /\ cfgCall.op = "loadConfig" /\ cfgCall.cached
    /\ cfgPrev.op = "saveGlobalConfig" /\ cfgPrev.outcome = "ConfigError"
    /\ globalConfig # Null /\ localConfig # Null
    /\ cfgCall.value = mergeConfigs(globalConfig, localConfig)

(***************************************************************************)
(* createWorktree, under SpecFn                                            *)
(***************************************************************************)
\* x is one of the arguments.
Among(arguments, x) == \E i \in 1..Len(arguments) : arguments[i] = x

\* y is the argument right after an argument x.
Follows(arguments, x, y) ==
    \E i \in 1..(Len(arguments) - 1) : arguments[i] = x /\ arguments[i + 1] = y

\* C23: for each of the eight combinations of createBranch, force and checkout,
\* the arguments createWorktree gives `git worktree add` have --force iff force,
\* -b followed by the branch name iff createBranch, --detach iff neither
\* createBranch nor checkout, always the path, and the branch name right after
\* the path iff checkout without createBranch; and the call raises GitError
\* when git exits non-zero, and only then.
C23_WorktreeAddArguments ==
    Called("createWorktree") =>
        LET path == fnCall.args[1]
            branchName == fnCall.args[2]
            createBranch == fnCall.args[3]
            force == fnCall.args[4]
            checkout == fnCall.args[5]
            exit == fnCall.args[6]
            git == fnCall.result.git
        IN  /\ Among(git, <<"-","-","f","o","r","c","e">>) <=> force
            /\ Among(git, <<"-", "b">>) <=> createBranch
            /\ Follows(git, <<"-", "b">>, branchName) <=> createBranch
            /\ Among(git, <<"-","-","d","e","t","a","c","h">>) <=> (~createBranch /\ ~checkout)
            /\ Among(git, path)
            /\ Follows(git, path, branchName) <=> (~createBranch /\ checkout)
            /\ (fnCall.result.threw = "GitError") <=> (exit # 0)
            /\ fnCall.result.threw \in {"GitError", "none"}

\* C23 witness: neither createBranch nor checkout, with force: the worktree is
\* added detached at the path and no branch is named.
C23_Witness ==
    /\ CalledWith("createWorktree", <<<<"/","w","/","a">>, <<"f","/","a">>, FALSE, TRUE, FALSE, 0>>)
    /\ fnCall.result.git = <<<<"-","-","f","o","r","c","e">>, <<"-","-","d","e","t","a","c","h">>, <<"/","w","/","a">>>>

(***************************************************************************)
(* fetchMergeRequestBranch / fetchPullRequestBranch, under SpecCmd         *)
(***************************************************************************)
\* The queries for the change request made so far.
Views ==
    IF invocation.command = "mr" THEN Ran("glab", "mr view") ELSE Ran("gh", "pr view")

\* fetchBranch was called: it makes the third query of an invocation.
FetchCalled == invocation.command \in {"mr", "pr"} /\ Cardinality(Views) = 3

\* fetchBranch's own query failed.
FetchQueryFailed == \E v \in Views : log[v].exit # 0

\* The fetches `git fetch origin <branch>:<branch>` and `git fetch origin <branch>`.
RefspecFetches ==
    {i \in Ran("git", "fetch") : \E b \in CrBranches : log[i].args[2] = b \o <<":">> \o b}

PlainFetches == Ran("git", "fetch") \ RefspecFetches

\* Some fetch succeeded; both fetches failed.
FetchSucceeded == \E i \in Ran("git", "fetch") : log[i].exit = 0

BothFetchesFailed ==
    /\ \E i \in RefspecFetches : log[i].exit # 0
    /\ \E i \in PlainFetches : log[i].exit # 0

\* The two fetches are run as stated: the plain fetch only after a failed
\* fetch with the refspec, and then always; nothing is fetched twice.
FetchOrder ==
    /\ Cardinality(RefspecFetches) <= 1 /\ Cardinality(PlainFetches) <= 1
    /\ PlainFetches # {} <=> (\E i \in RefspecFetches : log[i].exit # 0)
    /\ \A j \in PlainFetches : \E i \in RefspecFetches : i < j
    /\ Ran("git", "fetch") # {} => FetchCalled

\* C24 (as claimed): fetchBranch first runs `git fetch origin b:b`; the plain
\* `git fetch origin b` is run only if that exits non-zero; the operation
\* raises the provider's error iff both fetches fail, and succeeds iff one of
\* them succeeds.
C24_FetchThenFallback ==
    /\ FetchOrder
    /\ FetchCalled =>
          /\ RefspecFetches # {}
          /\ (status = "HostingError") <=> BothFetchesFailed
          /\ (status # "HostingError") <=> FetchSucceeded

\* C24 (amended): fetchBranch first asks the hosting CLI for the change
\* request's branch; when that query fails the provider's error is raised and
\* nothing is fetched; otherwise `git fetch origin b:b` is run, the plain fetch
\* only if it exits non-zero, and the provider's error is raised iff both fail.
C24_QueryThenFetchThenFallback ==
    /\ FetchOrder
    /\ FetchCalled =>
          /\ FetchQueryFailed <=> (Ran("git", "fetch") = {})
          /\ (status = "HostingError") <=> (FetchQueryFailed \/ BothFetchesFailed)
          /\ (status # "HostingError") <=> FetchSucceeded

\* C24 witness: the fetch with the refspec failed, the plain fetch succeeded,
\* and the worktree was then created.
C24_Witness ==
    /\ FetchCalled
    /\ \E i \in RefspecFetches : log[i].exit = 1
    /\ \E i \in PlainFetches : log[i].exit = 0
    /\ RanWith("git", "worktree add", 0) # {}

(***************************************************************************)
(* worktreeExists's comparison, under SpecFn                               *)
(***************************************************************************)
\* The canonical form of path p: absolute, from the working directory when p
\* is relative, and normalised.
Canonical(p) ==
    IF p # <<>> /\ p[1] = Sep THEN Normalised(p) ELSE Normalised(Cwd \o <<Sep>> \o p)

\* The paths of the worktrees a listing names.
ListedPaths(output) ==
    LET lines == LinesOf(output)
    IN  {SubSeq(lines[i], 10, Len(lines[i])) : i \in {j \in 1..Len(lines) : IsMarker(lines[j])}}

\* C25 (as claimed): when the worktrees can be listed, worktreeExists(path) is
\* true exactly when the canonical form of path is the canonical form of a
\* listed worktree's path, for relative and absolute paths, with or without
\* '.' and '..' segments or a trailing slash.
C25_CanonicalComparison ==
    (Called("worktreeExists") /\ fnCall.result.threw = "none") =>
        (fnCall.result.value <=>
            \E listed \in ListedPaths(fnCall.args[2]) :
                Canonical(listed) = Canonical(fnCall.args[3]))

(***************************************************************************)
(* The hosting CLI's availability, under SpecFn                            *)
(***************************************************************************)
\* C26 (as claimed): isGlabAvailable / isGhAvailable returns true when `which`
\* finds the program and false when it does not; and when the program is
\* missing, isGitLabProject / isGitHubProject returns false without running it.
C26_MissingCliNotCalled ==
    /\ Called("isAvailable") => (fnCall.result <=> (fnCall.args[2] = 0))
    /\ (Called("isProject") /\ fnCall.args[2] # 0) =>
          /\ ~fnCall.result.value
          /\ \A i \in 1..Len(fnCall.result.ran) : fnCall.result.ran[i].kind = "which"

(***************************************************************************)
(* findWorktreeByName, under SpecFn                                        *)
(***************************************************************************)
\* The final segment of path p: what follows its last '/' or '\'.
RECURSIVE FinalSegment(_)
FinalSegment(p) ==
    IF p = <<>> \/ p[Len(p)] \in {"/", "\\"} THEN <<>>
    ELSE Append(FinalSegment(SubSeq(p, 1, Len(p) - 1)), p[Len(p)])

\* C27 (as claimed): when the worktrees can be listed, findWorktreeByName(name)
\* returns a listed worktree whose path's final segment is name, and none when
\* no listed worktree has that final segment.
C27_FinalSegmentMatch ==
    (Called("findWorktreeByName") /\ fnCall.result.threw = "none") =>
        LET worktrees == fnCall.args[2]
            name == fnCall.args[3]
            named == {i \in 1..Len(worktrees) : FinalSegment(worktrees[i].path) = name}
        IN  IF named = {} THEN fnCall.result.found = NoWorktree
            ELSE \E i \in named : fnCall.result.found = worktrees[i]

(***************************************************************************)
(* The cache against the files, under SpecCfg                              *)
(***************************************************************************)
\* What loadConfig on a newly constructed ConfigManager computes from the
\* files as they are now.
FreshlyLoaded == mergeConfigs(loadGlobalConfig(globalFile), loadLocalConfig(localFile))

\* C28 (as claimed): whatever calls were made before on this ConfigManager,
\* loadConfig returns, field by field, what a newly constructed ConfigManager
\* would load from the current global and local files.
C28_CacheMatchesFiles ==
    cfgCall.op = "loadConfig" =>
        \A k \in ConfigKeys : Get(cfgCall.value, k) = Get(FreshlyLoaded, k)

(***************************************************************************)
(* The branch of a change request across one invocation, under SpecCmd     *)
(***************************************************************************)
\* The branch fetch i names, with or without the refspec.
FetchesBranch(i, b) == log[i].args[2] \in {b, b \o <<":">> \o b}

\* The worktree name derived from source branch b for this invocation.
DerivedFrom(b) ==
    IF invocation.command = "mr" THEN GitLabDeriveName(b, frame.iid)
    ELSE GitHubDeriveName(b, frame.iid)

\* C29 (as claimed): within one mr or pr invocation there is one source
\* branch that every fetch names, that `git worktree add` checks out and that
\* the worktree name is derived from, whatever the hosting CLI answers to the
\* invocation's several queries.
C29_OneSourceBranch ==
    invocation.command \in {"mr", "pr"} =>
        \E b \in CrBranches \cup {<<>>} :
            /\ \A i \in Ran("git", "fetch") : FetchesBranch(i, b)
            /\ \A i \in Ran("git", "worktree add") : log[i].args[Len(log[i].args)] = b
            /\ frame.baseName # <<>> => frame.baseName = DerivedFrom(b)

(***************************************************************************)
(* The place of the new worktree, under SpecCmd                            *)
(***************************************************************************)
\* path is a direct child of directory dir: dir, a separator, and one segment
\* that is not empty and holds no separator.
DirectChild(path, dir) ==
    LET base == IF dir = <<Sep>> THEN dir ELSE dir \o <<Sep>>
        segment == SubSeq(path, Len(base) + 1, Len(path))
    IN  /\ Len(path) > Len(base)
        /\ SubSeq(path, 1, Len(base)) = base
        /\ \A i \in 1..Len(segment) : segment[i] # Sep

\* The paths given to `git worktree add`: the argument before the branch to
\* check out (mr, pr), or the last argument (new).
AddedPaths ==
    {IF invocation.command = "new" THEN log[i].args[Len(log[i].args)]
     ELSE log[i].args[Len(log[i].args) - 1] : i \in Ran("git", "worktree add")}

\* C30 (as claimed): every path given to `git worktree add`, by new, mr or pr,
\* is a direct child of the configured worktree directory as resolved from the
\* working directory.
C30_PathInsideWorktreeDir ==
    \A path \in AddedPaths : DirectChild(path, Canonical(frame.config["worktreeDir"]))

====
